---------------------------- MODULE Spec2Model ----------------------------
(***************************************************************************)
(* FuzzySearch: the perceptual-hash index (BK-tree under Hamming           *)
(* distance), the index maintainer (load_updates / create_tree), the       *)
(* lookup pipeline (image_query_sync, lookup_hashes, image, url, hashes),  *)
(* the per-key rate limiter (update_rate_limit / rate_limit!) and the      *)
(* webhook consumer (new_submission / send_webhook), the hash-input        *)
(* service, the ingesters and the refresh worker.                          *)
(***************************************************************************)
EXTENDS Integers, Sequences, FiniteSets, TLC

(***************************************************************************)
(* Bounds and program constants                                            *)
(***************************************************************************)

\* Node is [u8; 8] in the source; the model keeps the byte layout and the
\* signed big-endian conversion and scales the number of bytes down.
HashBytes == 2

\* u8
ByteBits == 8

\* Largest number of nodes a tree of the pure-function specification holds.
MaxTreeNodes == 4

\* Rows the ingest workers commit in one run of the index specification.
MaxRows == 2

\* load_updates: the pause before the tree is recreated.
SleepSecs == 10

Pow2(n) == 2 ^ n

HashBits == HashBytes * ByteBits

\* The hashes the specifications draw from: both signs, the extreme values,
\* and pairwise distances below, at and above the radii the handlers use.
Hashes == {0, 1, 3, 1023, 2047, -1, -32768}

\* The hashes the ingest workers commit in the index specification, the
\* hashes looked up there and the radii of those lookups.
IngestHashes == {0, 1, 1023}

LookupHashes == {0, 3}

LookupRadii == {0, 3}

\* Radii handed to find: the handlers' 0, 3 and 10, values around them, the
\* largest distance of the scaled-down width, and a negative i64.
Radii == {-1, 0, 1, 3, 5, 10, 11, 16}

(***************************************************************************)
(* Node and Hamming (fuzzysearch/src/main.rs)                              *)
(***************************************************************************)

\* i64::to_be_bytes: two's complement, most significant byte first.
NodeNew(hash) ==
    LET u == hash % Pow2(HashBits)
    IN  [i \in 1..HashBytes |-> (u \div Pow2(ByteBits * (HashBytes - i))) % Pow2(ByteBits)]

\* Node::query takes the bytes as they are.
NodeQuery(bytes) == bytes

RECURSIVE BeValue(_, _)
BeValue(bytes, n) ==
    IF n = 0 THEN 0 ELSE BeValue(bytes, n - 1) * Pow2(ByteBits) + bytes[n]

\* i64::from_be_bytes
NodeNum(bytes) ==
    LET u == BeValue(bytes, HashBytes)
    IN  IF u >= Pow2(HashBits - 1) THEN u - Pow2(HashBits) ELSE u

RECURSIVE DiffBits(_, _, _)
\* Number of bit positions, among the low n, where bytes x and y differ.
DiffBits(x, y, n) ==
    IF n = 0 THEN 0
    ELSE (IF x % 2 # y % 2 THEN 1 ELSE 0) + DiffBits(x \div 2, y \div 2, n - 1)

RECURSIVE SumBytes(_, _, _)
SumBytes(a, b, n) ==
    IF n = 0 THEN 0 ELSE SumBytes(a, b, n - 1) + DiffBits(a[n], b[n], ByteBits)

RECURSIVE DiffBytes(_, _, _)
DiffBytes(a, b, n) ==
    IF n = 0 THEN 0 ELSE DiffBytes(a, b, n - 1) + (IF a[n] # b[n] THEN 1 ELSE 0)

\* A distance that counts differing bytes instead of differing bits.
HammingDistanceBytewise(a, b) == DiffBytes(a, b, HashBytes)

\* Hamming::distance: hamming::distance_fast over the two byte arrays.
HammingDistance(a, b) == SumBytes(a, b, HashBytes)

(***************************************************************************)
(* The BK-tree (bk_tree::BKTree<Node, Hamming>)                            *)
(*                                                                         *)
(* A tree is the sequence of its nodes in insertion order; node 1 is the   *)
(* root.  Each node records its key, its parent and the distance that      *)
(* labels the edge from its parent.                                        *)
(***************************************************************************)

BKNew == << >>

BKChildren(t, i) == {k \in 1..Len(t) : t[k].parent = i}

BKChild(t, i, d) == {k \in 1..Len(t) : t[k].parent = i /\ t[k].dist = d}

RECURSIVE BKDescend(_, _, _)
\* The node under which key is hung: follow the edge labelled with the
\* distance to the current node while there is one.
BKDescend(t, i, key) ==
    LET d == HammingDistance(t[i].key, key)
        c == BKChild(t, i, d)
    IN  IF c = {} THEN <<i, d>> ELSE BKDescend(t, CHOOSE k \in c : TRUE, key)

\* BKTree::add
BKAdd(t, key) ==
    IF t = << >> THEN << [key |-> key, parent |-> 0, dist |-> 0] >>
    ELSE LET at == BKDescend(t, 1, key)
         IN  Append(t, [key |-> key, parent |-> at[1], dist |-> at[2]])

RECURSIVE BKFindFrom(_, _, _, _)
RECURSIVE BKFindAmong(_, _, _, _)
\* The matches in the subtree of node i: the node itself when it is within
\* the tolerance, and the subtrees whose edge label e has |e - d| <= tol.
BKFindFrom(t, i, key, tol) ==
    LET d    == HammingDistance(t[i].key, key)
        self == IF d <= tol THEN << [dist |-> d, item |-> t[i].key] >> ELSE << >>
        near == {k \in BKChildren(t, i) : t[k].dist >= d - tol /\ t[k].dist <= d + tol}
    IN  self \o BKFindAmong(t, near, key, tol)

BKFindAmong(t, nodes, key, tol) ==
    IF nodes = {} THEN << >>
    ELSE LET k == CHOOSE n \in nodes : \A m \in nodes : n <= m
         IN  BKFindFrom(t, k, key, tol) \o BKFindAmong(t, nodes \ {k}, key, tol)

\* BKTree::find: the (distance, key) pairs within the tolerance.
BKFind(t, key, tol) ==
    IF t = << >> THEN << >> ELSE BKFindFrom(t, 1, key, tol)

\* BKTree::find_exact
BKFindExact(t, key) == BKFind(t, key, 0) # << >>

\* The keys a tree holds, as numbers.
BKKeys(t) == {NodeNum(t[k].key) : k \in 1..Len(t)}

SeqToSet(s) == {s[k] : k \in 1..Len(s)}

(***************************************************************************)
(* State                                                                   *)
(***************************************************************************)

VARIABLES
    tree,       \* the shared BK-tree behind the RwLock (Tree)
    inserted,   \* history: the hashes handed to the tree of the pure-function specification
    fq,         \* the last index search of the pure-function specification
    db,         \* the committed rows, in commit order; a row's id is its position
    notifq,     \* notifications delivered to the listener and not yet received
    conn,       \* the listener's connection: "none", "up" or "broken"
    mpc,        \* where the index maintainer (load_updates) stands
    new_tree,   \* create_tree's private tree
    cursor,     \* the rows of create_tree's query not yet fetched
    payload,    \* the notification being handled
    serving,    \* load_updates has returned and the server answers requests
    readers,    \* read locks held on the tree
    lk,         \* the lookup in progress (image_query_sync)
    hist,       \* history the claims are stated over
    now,        \* the clock: unix seconds (chrono::Utc::now().timestamp())
    rate_limit, \* the rate_limit table: (api_key_id, time_window, group_name) -> count
    indexed,    \* the rows of the store the index service has taken in
    req,        \* the requests the API servers are handling, one per slot
    ahist,      \* history of the quota rows the claims are stated over
    webhook,    \* the webhook table: the subscribers
    faktory,    \* the jobs waiting on the queue fuzzysearch_webhook
    consumer,   \* the workers of the webhook consumer
    whist,      \* history of the jobs the claims are stated over
    codec,      \* a webhook payload on its way through the JSON encoders and decoder
    hi,         \* the hash-input service: the semaphore, its requests, its blocking tasks
    fa,         \* the FurAffinity ingester and the submission table
    weasyl,     \* the Weasyl ingester and the weasyl table
    e621,       \* the e621 ingester, the e621 table and its open transaction
    refresh,    \* the furaffinity_load handler of the refresh worker and a submission row
    poll        \* poll_fa_online of the refresh worker and the state of its queue

vars == <<tree, inserted, fq, db, notifq, conn, mpc, new_tree, cursor, payload,
          serving, readers, lk, hist, now, rate_limit, indexed, req, ahist,
          webhook, faktory, consumer, whist, codec, hi, fa, weasyl, e621, refresh, poll>>

hookVars == <<webhook, faktory, consumer, whist>>

extVars == <<codec, hi, fa, weasyl, e621, refresh, poll>>

notCodec == <<hi, fa, weasyl, e621, refresh, poll>>

notHi == <<codec, fa, weasyl, e621, refresh, poll>>

notFa == <<codec, hi, weasyl, e621, refresh, poll>>

notWeasyl == <<codec, hi, fa, e621, refresh, poll>>

notE621 == <<codec, hi, fa, weasyl, refresh, poll>>

notRefresh == <<codec, hi, fa, weasyl, e621, poll>>

notPoll == <<codec, hi, fa, weasyl, e621, refresh>>

apiVars == <<now, rate_limit, indexed, req, ahist>>

findVars == <<tree, inserted, fq>>

indexVars == <<tree, db, notifq, conn, mpc, new_tree, cursor, payload, serving,
               readers, lk, hist>>

NoQuery == [hash |-> 0, distance |-> 0, items |-> << >>, done |-> FALSE]

(***************************************************************************)
(* create_tree's row step and image_query_sync's index search              *)
(***************************************************************************)

\* A row step that adds the hash without looking for it first.
TreeInsertAlways(t, hash) == BKAdd(t, NodeNew(hash))

\* create_tree, one row: find_exact, and add on a miss.
TreeInsert(t, hash) ==
    IF BKFindExact(t, NodeNew(hash)) THEN t ELSE BKAdd(t, NodeNew(hash))

\* `distance as u64`: the i64 reinterpreted as unsigned (at the model's width).
AsUnsigned(d) == d % Pow2(HashBits)

RECURSIVE Unseen(_, _)
\* The `seen` filter: an item is kept the first time its bytes occur.
Unseen(items, seen) ==
    IF items = << >> THEN << >>
    ELSE IF Head(items).item \in seen THEN Unseen(Tail(items), seen)
    ELSE << Head(items) >> \o Unseen(Tail(items), seen \cup {Head(items).item})

\* image_query_sync, one query hash: the items the database is asked about.
QueryItems(t, query_hash, distance) ==
    Unseen(BKFind(t, NodeQuery(NodeNew(query_hash)), AsUnsigned(distance)), {})

(***************************************************************************)
(* The API server: keys, the rate_limit table, update_rate_limit           *)
(***************************************************************************)

\* `let count: i16`: the count column is a 16-bit signed integer.
I16Max == 32767

\* update_rate_limit: the length of a time window in seconds.
WindowSecs == 60

\* url: the largest body that is buffered, in bytes.
MaxBodyBytes == 10000000

\* lookup_hashes: the largest distance it searches.
MaxDistance == 10

\* image: the distance of the first search of a close or exact search, and
\* the distance of a forced or expanded search.
ExactDistance == 0

ExpandedDistance == 10

\* url: the distance when the request names none.
DefaultDistance == 3

\* Requests the clients send in one run of the API specifications.
MaxRequests == 3

\* The API keys of the store (UserApiKey) with their limits per minute: a
\* key that may search and a key whose limits are zero.
ApiKeys ==
    { [id |-> 1, image_limit |-> 2, hash_limit |-> 1],
      [id |-> 2, image_limit |-> 0, hash_limit |-> 0] }

\* The handler slots: requests handled at the same time, by any servers.
Slots == {"a", "b"}

\* The clock readings of a run: the last second of a window and the first
\* second of the next window.
Times == <<59, 60>>

\* The hashes of the rows committed while the API serves, the hash the hash
\* service computes for an uploaded or fetched image.
ApiIngestHashes == {0, 1023, 2047}

ImageHashes == {0}

SearchTypes == {"none", "close", "exact", "force"}

\* The responses a fetched URL gives: the advertised content-length (0 when
\* the header is absent or unreadable) and the lengths of the chunks.
Bodies ==
    { [content_length |-> 0, chunks |-> <<MaxBodyBytes>>],
      [content_length |-> MaxBodyBytes, chunks |-> <<MaxBodyBytes - 1, 1>>],
      [content_length |-> MaxBodyBytes + 1, chunks |-> <<MaxBodyBytes + 1>>],
      [content_length |-> 0, chunks |-> <<MaxBodyBytes + 1>>],
      [content_length |-> 1, chunks |-> <<MaxBodyBytes, 1>>] }

\* A size test that already refuses a body of MaxBodyBytes.
OverCapInclusive(n) == n >= MaxBodyBytes

\* url: `> 10_000_000`
OverCap(n) == n > MaxBodyBytes

\* A handler result left in the order the lookup gave.
SortByDistanceNot(results) == results

\* A key with limits that admit a /hashes request of ten hashes.
BulkKeys == {[id |-> 3, image_limit |-> 12, hash_limit |-> 12]}

KeyById(id) == CHOOSE k \in ApiKeys \cup BulkKeys : k.id = id

\* The X-Api-Key header of a request: absent, or the key it names (by the
\* id of the key's row; UnknownKey names no row).
NoHeader == [some |-> FALSE, value |-> 0]

UnknownKey == [some |-> TRUE, value |-> 0]

HeaderOf(key) == [some |-> TRUE, value |-> key.id]

\* A lookup that finds a key for every header.
FoundKeysOrAny(header) ==
    IF \E k \in ApiKeys \cup BulkKeys : header.some /\ k.id = header.value
    THEN {k \in ApiKeys \cup BulkKeys : k.id = header.value}
    ELSE {CHOOSE k \in ApiKeys : TRUE}

\* lookup_api_key: the row of the key a header names, if there is one.
FoundKeys(header) == {k \in ApiKeys \cup BulkKeys : header.some /\ k.id = header.value}

\* `$api_key.0.$limit`
KeyLimit(key_id, group_name) ==
    IF group_name = "image" THEN KeyById(key_id).image_limit
    ELSE KeyById(key_id).hash_limit

\* i16 arithmetic, wrapping.
I16(x) == ((x + (I16Max + 1)) % (2 * (I16Max + 1))) - (I16Max + 1)

\* A window that is the number of whole minutes of the timestamp.
TimeWindowMinutes(timestamp) == timestamp \div WindowSecs

\* update_rate_limit: the window a timestamp falls in.
TimeWindow(timestamp) == timestamp - (timestamp % WindowSecs)

\* The count the upsert computes: the inserted value, or on conflict the
\* stored count plus the increment.
UpsertCount(table, row, incr_by) ==
    IF row \in DOMAIN table THEN table[row] + incr_by ELSE incr_by

\* The table after the upsert.
Upsert(table, row, incr_by) ==
    [r \in DOMAIN table \cup {row} |->
        IF r = row THEN UpsertCount(table, row, incr_by) ELSE table[r]]

\* A verdict that limits a key one request early.
RateLimitOfInclusive(count, key_group_limit) ==
    IF count >= key_group_limit
    THEN [limited |-> TRUE, remaining |-> 0, total |-> 0]
    ELSE [limited |-> FALSE, remaining |-> I16(key_group_limit - count),
          total |-> key_group_limit]

\* update_rate_limit: RateLimit::Limited, or RateLimit::Available((limit - count, limit)).
RateLimitOf(count, key_group_limit) ==
    IF count > key_group_limit
    THEN [limited |-> TRUE, remaining |-> 0, total |-> 0]
    ELSE [limited |-> FALSE, remaining |-> I16(key_group_limit - count),
          total |-> key_group_limit]

\* An expansion that ignores the search type.
ExpandSearchAlways(search_type, results) == results = << >>

\* image: `results.is_empty() && search_type != ImageSearchType::Exact`
ExpandSearch(search_type, results) == results = << >> /\ search_type # "exact"

\* image: `search_type.0.unwrap_or(ImageSearchType::Close)`
SearchTypeOf(mode) == IF mode = "none" THEN "close" ELSE mode

\* url: `distance.unwrap_or(3)`
DistanceOf(opt) == IF opt.some THEN opt.value ELSE DefaultDistance

\* search_many for one hash, flattened to HashSearch values.
SearchMany(t, hash, distance) ==
    LET found == BKFind(t, NodeNew(hash), distance)
    IN  [k \in 1..Len(found) |->
            [searched_hash |-> hash, found_hash |-> NodeNum(found[k].item),
             distance |-> found[k].dist]]

RECURSIVE SearchManyAll(_, _, _)
\* search_many for the hashes of a request, in their order.
SearchManyAll(t, hashes, distance) ==
    IF hashes = << >> THEN << >>
    ELSE SearchMany(t, Head(hashes), distance) \o SearchManyAll(t, Tail(hashes), distance)

RECURSIVE RowsWithHash(_, _, _)
\* The rows of the store from id on whose hash is h, by id.
RowsWithHash(d, h, id) ==
    IF id > Len(d) THEN << >>
    ELSE IF d[id].has_hash /\ d[id].hash = h
         THEN << id >> \o RowsWithHash(d, h, id + 1)
         ELSE RowsWithHash(d, h, id + 1)

RECURSIVE JoinRows(_, _)
\* The lookup query: every row whose hash an index hit found, with the
\* hit's searched hash and distance.
JoinRows(d, index_hashes) ==
    IF index_hashes = << >> THEN << >>
    ELSE LET hit == Head(index_hashes)
             ids == RowsWithHash(d, hit.found_hash, 1)
         IN  [k \in 1..Len(ids) |->
                 [site_id |-> ids[k], hash |-> hit.found_hash,
                  searched_hash |-> hit.searched_hash, distance |-> hit.distance]]
             \o JoinRows(d, Tail(index_hashes))

RECURSIVE InsertByDistance(_, _)
\* A result put after the last result of the sorted list that is not farther.
InsertByDistance(sorted, x) ==
    IF sorted = << >> THEN << x >>
    ELSE IF sorted[Len(sorted)].distance <= x.distance THEN Append(sorted, x)
    ELSE Append(InsertByDistance(SubSeq(sorted, 1, Len(sorted) - 1), x),
                sorted[Len(sorted)])

RECURSIVE SortByDistance(_)
\* `results.sort_by(|a, b| a.distance.partial_cmp(&b.distance).unwrap())`: stable.
SortByDistance(results) ==
    IF results = << >> THEN << >>
    ELSE InsertByDistance(SortByDistance(SubSeq(results, 1, Len(results) - 1)),
                          results[Len(results)])

NoParam == [text |-> << >>, tokens |-> << >>]

NoCharge ==
    [row |-> <<0, 0, "none">>, prev |-> 0, incr_by |-> 0, count |-> 0,
     outcome |-> "none"]

NoBody == [content_length |-> 0, chunks |-> << >>]

\* A handler slot with no request.
IdleRequest ==
    [pc |-> "idle", ep |-> "none", key |-> 0, search_type |-> "none",
     distance |-> 0, group |-> "none", time_window |-> 0,
     image_remaining |-> <<>>, hash_remaining |-> <<>>, resp |-> NoBody,
     buf |-> 0, hash |-> 0, index_hashes |-> << >>, lookups |-> << >>,
     charge |-> NoCharge, charged |-> {}, status |-> 0, error |-> "none",
     bucket |-> "none", matches |-> << >>,
     header |-> NoHeader, param |-> NoParam, hashes |-> << >>, incr_by |-> 0,
     body |-> NoBody, work |-> << >>, given |-> [some |-> FALSE, value |-> 0]]

(***************************************************************************)
(* The hashes parameter of /hashes: a string is the sequence of its        *)
(* characters                                                              *)
(***************************************************************************)

\* hashes: the number of tokens that are looked at.
MaxHashes == 10

DigitChars == <<"0", "1", "2", "3", "4", "5", "6", "7", "8", "9">>

IsDigit(c) == \E k \in 1..Len(DigitChars) : DigitChars[k] = c

DigitValue(c) == (CHOOSE k \in 1..Len(DigitChars) : DigitChars[k] = c) - 1

\* The largest and the smallest i64, at the model's width.
HashMax == Pow2(HashBits - 1) - 1

HashMin == 0 - Pow2(HashBits - 1)

RECURSIVE ParseDigits(_, _, _)
\* i64::from_str, the digits: the value is built up digit by digit, away
\* from zero for a negative number, and a step that leaves the range or
\* meets another character fails.
ParseDigits(chars, negative, acc) ==
    IF chars = << >> THEN [ok |-> TRUE, value |-> acc]
    ELSE IF ~IsDigit(Head(chars)) THEN [ok |-> FALSE, value |-> 0]
    ELSE LET next == IF negative THEN acc * 10 - DigitValue(Head(chars))
                     ELSE acc * 10 + DigitValue(Head(chars))
         IN  IF next > HashMax \/ next < HashMin THEN [ok |-> FALSE, value |-> 0]
             ELSE ParseDigits(Tail(chars), negative, next)

\* A parse that reads a token that is no number as 0.
ParseI64Lenient(chars) ==
    IF chars = << >> \/ chars = << "+" >> \/ chars = << "-" >>
    THEN [ok |-> TRUE, value |-> 0]
    ELSE LET signed == Head(chars) \in {"+", "-"}
             p == ParseDigits(IF signed THEN Tail(chars) ELSE chars, Head(chars) = "-", 0)
         IN  IF p.ok THEN p ELSE [ok |-> TRUE, value |-> 0]

\* `hash.parse::<i64>()`: an optional sign and at least one digit.
ParseI64(chars) ==
    IF chars = << >> \/ chars = << "+" >> \/ chars = << "-" >>
    THEN [ok |-> FALSE, value |-> 0]
    ELSE ParseDigits(IF Head(chars) \in {"+", "-"} THEN Tail(chars) ELSE chars,
                     Head(chars) = "-", 0)

RECURSIVE Split(_, _)
\* `split(',')`: the pieces between the commas; the empty string has one
\* piece, the empty one.
Split(chars, token) ==
    IF chars = << >> THEN << token >>
    ELSE IF Head(chars) = "," THEN << token >> \o Split(Tail(chars), << >>)
    ELSE Split(Tail(chars), Append(token, Head(chars)))

\* A take that lets one token more through.
TakeOneMore(s, n) == SubSeq(s, 1, IF Len(s) < n + 1 THEN Len(s) ELSE n + 1)

\* `take(n)`
Take(s, n) == SubSeq(s, 1, IF Len(s) < n THEN Len(s) ELSE n)

RECURSIVE FilterParse(_)
\* `filter_map(|hash| hash.parse().ok())`
FilterParse(tokens) ==
    IF tokens = << >> THEN << >>
    ELSE LET p == ParseI64(Head(tokens))
         IN  (IF p.ok THEN << p.value >> ELSE << >>) \o FilterParse(Tail(tokens))

\* hashes: the hashes of the parameter.
ParseHashes(param) == FilterParse(Take(Split(param, << >>), MaxHashes))

RECURSIVE Decimal(_)
\* The decimal digits of a natural number.
Decimal(n) ==
    IF n < 10 THEN << DigitChars[n + 1] >>
    ELSE Decimal(n \div 10) \o << DigitChars[(n % 10) + 1] >>

\* The tokens a client puts in the parameter: a number as it is written,
\* and a token that is no i64.  `number` tells which of the two it is.
Num(n) ==
    [text |-> IF n < 0 THEN << "-" >> \o Decimal(0 - n) ELSE Decimal(n),
     number |-> TRUE, value |-> n]

Junk(text) == [text |-> text, number |-> FALSE, value |-> 0]

RECURSIVE JoinTokens(_)
\* The tokens written with commas between them.
JoinTokens(tokens) ==
    IF Len(tokens) = 1 THEN tokens[1].text
    ELSE tokens[1].text \o << "," >> \o JoinTokens(Tail(tokens))

Repeated(token, n) == [k \in 1..n |-> token]

\* The token lists of the /hashes requests: the empty parameter, tokens
\* that are no numbers, signs, the largest and smallest i64 and the first
\* number beyond, and lists of more than MaxHashes tokens.
TokenLists ==
    { << Junk(<< >>) >>,
      << Num(0) >>,
      << Num(0), Junk(<< "x" >>), Num(3) >>,
      << Num(-1), Junk(<< "+" >>), Junk(<< "1", ".", "0" >>), Junk(<< " ", "1" >>),
         [text |-> << "+", "3" >>, number |-> TRUE, value |-> 3] >>,
      << Num(HashMax), Junk(Decimal(HashMax + 1)), Num(HashMin),
         Junk(<< "-" >> \o Decimal(HashMax + 2)) >>,
      Repeated(Junk(<< "x" >>), MaxHashes) \o << Num(3) >>,
      Repeated(Num(1), MaxHashes) \o << Num(3) >> }

\* The parameter of a request and, for the claims, the tokens it was
\* written from.
ParamOf(tokens) == [text |-> JoinTokens(tokens), tokens |-> tokens]

(***************************************************************************)
(* The webhook fan-out (fuzzysearch-webhook): jobs and subscribers         *)
(***************************************************************************)

MaxSubmissions == 1
MaxPostFailures == 3
MaxFailures == 1
NewSubmissionRetry == 3
NewSubmissionReserveFor == 30
JobDefaultRetry == 25
JobDefaultReserveFor == 600
ClientTimeoutSecs == 3
WorkerCount == 2

Workers == 1..WorkerCount

\* WebHookData, as far as a filter can tell two submissions apart.
Payloads ==
    { [site |-> "FurAffinity", site_id |-> 1, artist |-> "a"],
      [site |-> "Weasyl", site_id |-> 2, artist |-> "b"] }

NoFilter == [some |-> FALSE, site |-> "none"]

\* The rows of the webhook table: an endpoint, and the site filter a
\* subscriber may have registered with.
Subscribers ==
    { [endpoint |-> "e1", filter |-> NoFilter],
      [endpoint |-> "e2", filter |-> [some |-> TRUE, site |-> "Weasyl"]] }

\* A subscriber is meant to receive a payload.
Matches(sub, data) == ~sub.filter.some \/ sub.filter.site = data.site

\* SELECT endpoint FROM webhook
SelectEndpoint(table, data) == {sub.endpoint : sub \in table}

\* The orders a result set may come in.
RECURSIVE Orders(_)
Orders(set) ==
    IF set = {} THEN {<< >>}
    ELSE UNION {{<<x>> \o rest : rest \in Orders(set \ {x})} : x \in set}

\* queue_webhook: the new_submission job of a payload.
NewSubmissionJob(id, args) ==
    [kind |-> "new_submission", args |-> args, id |-> id, failures |-> 0,
     retry |-> [some |-> TRUE, value |-> NewSubmissionRetry],
     reserve_for |-> [some |-> TRUE, value |-> NewSubmissionReserveFor]]

\* The send_webhook job the new_submission handler makes for one endpoint:
\* Job::new and on_queue, with retry and reserve_for as Job::new leaves them.
SendWebhookJob(id, data, endpoint) ==
    [kind |-> "send_webhook", args |-> <<data, endpoint>>, id |-> id, failures |-> 0,
     retry |-> [some |-> FALSE, value |-> 0],
     reserve_for |-> [some |-> FALSE, value |-> 0]]

\* The retries and the reservation the queue gives a job: what the job
\* carries, and the defaults of Job::new for a job that carries none.
RetryOf(job) == IF job.retry.some THEN job.retry.value ELSE JobDefaultRetry

ReserveForOf(job) ==
    IF job.reserve_for.some THEN job.reserve_for.value ELSE JobDefaultReserveFor

\* What a POST may come to: a response with its status after so many
\* seconds, or a transport error.
PostOutcomes ==
    [kind : {"response"}, status : {200, 304, 500}, secs : {1, ClientTimeoutSecs + 1}]
        \cup {[kind |-> "transport", status |-> 0, secs |-> 1]}

\* Response::error_for_status: a client or server error status.
ErrorForStatus(status) == status >= 400 /\ status <= 599

\* client.post(endpoint).json(&value).send()?.error_for_status()? with the
\* client's timeout: Ok or Err.
PostOk(out) ==
    /\ out.kind = "response"
    /\ out.secs <= ClientTimeoutSecs
    /\ ~ErrorForStatus(out.status)

\* A history of jobs with one more of x: how many of each were enqueued.
Counted(bag, x) ==
    IF x \in DOMAIN bag THEN [bag EXCEPT ![x] = @ + 1] ELSE bag @@ (x :> 1)

NoJob ==
    [kind |-> "none", args |-> << >>, id |-> 0, failures |-> 0,
     retry |-> [some |-> FALSE, value |-> 0], reserve_for |-> [some |-> FALSE, value |-> 0]]

IdleWorker == [pc |-> "idle", job |-> NoJob, data |-> << >>, rows |-> << >>, subs |-> {}]

HookVarsInit ==
    /\ webhook = {}
    /\ faktory = << >>
    /\ consumer = [w \in Workers |-> IdleWorker]
    /\ whist = [submitted |-> 0, failed |-> 0, enqueued |-> << >>,
                completed |-> {}, posted |-> {}, succeeded |-> {}]

(***************************************************************************)
(* WebHookData and its JSON (fuzzysearch-common types.rs and faktory.rs)   *)
(***************************************************************************)

JNull == [t |-> "null", n |-> 0, cs |-> << >>]

JNum(n) == [t |-> "num", n |-> n, cs |-> << >>]

JStr(cs) == [t |-> "str", n |-> 0, cs |-> cs]

None == [some |-> FALSE, value |-> << >>]

Some(v) == [some |-> TRUE, value |-> v]

\* The standard base64 alphabet; a character's index less one is its value.
B64Chars ==
    <<"A", "B", "C", "D", "E", "F", "G", "H", "I", "J", "K", "L", "M", "N", "O", "P",
      "Q", "R", "S", "T", "U", "V", "W", "X", "Y", "Z", "a", "b", "c", "d", "e", "f",
      "g", "h", "i", "j", "k", "l", "m", "n", "o", "p", "q", "r", "s", "t", "u", "v",
      "w", "x", "y", "z", "0", "1", "2", "3", "4", "5", "6", "7", "8", "9", "+", "/">>

B64Char(v) == B64Chars[v + 1]

IsB64Char(c) == \E k \in 1..Len(B64Chars) : B64Chars[k] = c

B64Value(c) == (CHOOSE k \in 1..Len(B64Chars) : B64Chars[k] = c) - 1

RECURSIVE B64Encode(_)
\* base64::encode: three bytes make four characters, and the last one or
\* two bytes are padded with "=".
B64Encode(bytes) ==
    IF bytes = << >> THEN << >>
    ELSE IF Len(bytes) = 1
    THEN << B64Char(bytes[1] \div 4), B64Char((bytes[1] % 4) * 16), "=", "=" >>
    ELSE IF Len(bytes) = 2
    THEN << B64Char(bytes[1] \div 4),
            B64Char((bytes[1] % 4) * 16 + bytes[2] \div 16),
            B64Char((bytes[2] % 16) * 4), "=" >>
    ELSE << B64Char(bytes[1] \div 4),
            B64Char((bytes[1] % 4) * 16 + bytes[2] \div 16),
            B64Char((bytes[2] % 16) * 4 + bytes[3] \div 64),
            B64Char(bytes[3] % 64) >> \o B64Encode(SubSeq(bytes, 4, Len(bytes)))

RECURSIVE B64Decode(_)
\* base64::decode: groups of four characters; padding in the last group
\* only, and the bits a padded group leaves over must be zero.
B64Decode(chars) ==
    IF chars = << >> THEN [ok |-> TRUE, bytes |-> << >>]
    ELSE IF Len(chars) < 4 \/ ~IsB64Char(chars[1]) \/ ~IsB64Char(chars[2])
    THEN [ok |-> FALSE, bytes |-> << >>]
    ELSE LET v1 == B64Value(chars[1])
             v2 == B64Value(chars[2])
             b1 == v1 * 4 + v2 \div 16
         IN  IF chars[3] = "="
             THEN IF Len(chars) = 4 /\ chars[4] = "=" /\ v2 % 16 = 0
                  THEN [ok |-> TRUE, bytes |-> << b1 >>]
                  ELSE [ok |-> FALSE, bytes |-> << >>]
             ELSE IF ~IsB64Char(chars[3]) THEN [ok |-> FALSE, bytes |-> << >>]
             ELSE LET v3 == B64Value(chars[3])
                      b2 == (v2 % 16) * 16 + v3 \div 4
                  IN  IF chars[4] = "="
                      THEN IF Len(chars) = 4 /\ v3 % 4 = 0
                           THEN [ok |-> TRUE, bytes |-> << b1, b2 >>]
                           ELSE [ok |-> FALSE, bytes |-> << >>]
                      ELSE IF ~IsB64Char(chars[4]) THEN [ok |-> FALSE, bytes |-> << >>]
                      ELSE LET b3 == (v3 % 4) * 64 + B64Value(chars[4])
                               rest == B64Decode(SubSeq(chars, 5, Len(chars)))
                           IN  IF rest.ok
                               THEN [ok |-> TRUE, bytes |-> << b1, b2, b3 >> \o rest.bytes]
                               ELSE rest

\* enum Site, by the names of its variants.
Sites == {"FurAffinity", "E621", "Weasyl"}

\* The largest and the smallest i32, at the model's width.
I32Max == Pow2(HashBits \div 2 - 1) - 1

I32Min == 0 - Pow2(HashBits \div 2 - 1)

\* b64_vec::serialize and b64_u8::serialize
B64Serialize(opt) == IF opt.some THEN JStr(B64Encode(opt.value)) ELSE JNull

\* b64_vec::deserialize: null or a base64 string.
B64VecDeserialize(j) ==
    IF j.t = "null" THEN [ok |-> TRUE, value |-> None]
    ELSE IF j.t # "str" THEN [ok |-> FALSE, value |-> None]
    ELSE LET d == B64Decode(j.cs)
         IN  IF d.ok THEN [ok |-> TRUE, value |-> Some(d.bytes)]
             ELSE [ok |-> FALSE, value |-> None]

\* b64_u8::deserialize: as b64_vec, and the bytes must fill the array.
B64U8Deserialize(j) ==
    LET d == B64VecDeserialize(j)
    IN  IF d.ok /\ d.value.some /\ Len(d.value.value) # HashBytes
        THEN [ok |-> FALSE, value |-> None]
        ELSE d

\* Serialize of types::WebHookData: site_id is a number.
TypesSerialize(data) ==
    [site |-> data.site, site_id |-> JNum(data.site_id), artist |-> data.artist,
     file_url |-> data.file_url, file_sha256 |-> B64Serialize(data.file_sha256),
     hash |-> B64Serialize(data.hash)]

\* Serialize of faktory::WebHookData: site_id goes through string::serialize.
FaktorySerialize(data) ==
    [site |-> data.site,
     site_id |-> JStr(IF data.site_id < 0 THEN << "-" >> \o Decimal(0 - data.site_id)
                      ELSE Decimal(data.site_id)),
     artist |-> data.artist,
     file_url |-> data.file_url, file_sha256 |-> B64Serialize(data.file_sha256),
     hash |-> B64Serialize(data.hash)]

NoData ==
    [site |-> "none", site_id |-> 0, artist |-> "none", file_url |-> "none",
     file_sha256 |-> None, hash |-> None]

NoJson ==
    [site |-> "none", site_id |-> JNull, artist |-> "none", file_url |-> "none",
     file_sha256 |-> JNull, hash |-> JNull]

\* Deserialize of an i32: a number in the range of i32.
SiteIdOfNumber(j) ==
    IF j.t = "num" /\ j.n >= I32Min /\ j.n <= I32Max
    THEN [ok |-> TRUE, value |-> j.n]
    ELSE [ok |-> FALSE, value |-> 0]

\* Deserialize of types::WebHookData, the type the send_webhook handler
\* decodes its first argument to.
TypesDeserialize(json) ==
    LET id == SiteIdOfNumber(json.site_id)
        sha == B64VecDeserialize(json.file_sha256)
        hash == B64U8Deserialize(json.hash)
    IN  IF json.site \in Sites /\ id.ok /\ sha.ok /\ hash.ok
        THEN [ok |-> TRUE,
              value |-> [site |-> json.site, site_id |-> id.value, artist |-> json.artist,
                         file_url |-> json.file_url, file_sha256 |-> sha.value,
                         hash |-> hash.value]]
        ELSE [ok |-> FALSE, value |-> NoData]

\* The payloads: every site, ids at zero, below it and at and beyond the
\* ends of i32, a digest of no, one, two and three bytes or none, a hash
\* or none.
WebHookDatas ==
    [site : Sites, site_id : {-1, 0, I32Max, I32Max + 1}, artist : {"a"}, file_url : {"u"},
     file_sha256 : {None, Some(<< >>), Some(<<255>>), Some(<<1, 2>>), Some(<<1, 2, 3>>)},
     hash : {None, Some([k \in 1..HashBytes |-> 0]), Some([k \in 1..HashBytes |-> 256 - k])}]

IdleCodec ==
    [pc |-> "idle", encoder |-> "none", data |-> NoData, json |-> NoJson,
     decoded |-> NoData, posted |-> NoJson]

(***************************************************************************)
(* The hash-input service (fuzzysearch-hash-input)                         *)
(***************************************************************************)

Permits == 4
MaxHashRequests == 5
MaxCancels == 1

HashSlots == 1..MaxHashRequests

HiInit ==
    hi = [permits |-> Permits, pc |-> [r \in HashSlots |-> "idle"], detached |-> 0,
          cancels |-> 0, answered |-> {}]

\* The decode-and-hash computations that are running: those of the
\* requests that hold a permit and those whose request is gone.
Hashing == Cardinality({r \in HashSlots : hi.pc[r] = "hashing"}) + hi.detached

(***************************************************************************)
(* The FurAffinity ingester (fuzzysearch-ingest-furaffinity) and the       *)
(* submission table: a row is "full", a tombstone is "null"                *)
(***************************************************************************)

MaxSubmissionId == 3
MaxStoreFailures == 1
MaxOtherWrites == 1
MaxRestarts == 2
MaxAttempts == 3
FirstAttempt == 1

SubmissionIds == 1..MaxSubmissionId

Tables == [SubmissionIds -> {"none", "null", "full"}]

Stored(rows) == {id \in SubmissionIds : rows[id] # "none"}

MaxId(ids) == CHOOSE m \in ids : \A id \in ids : id <= m

RECURSIVE Ascending(_)
Ascending(ids) ==
    IF ids = {} THEN << >>
    ELSE LET m == MaxId(ids) IN Append(Ascending(ids \ {m}), m)

\* ids_to_check: generate_series from the highest stored id to max, less
\* the ids that have a row; max(id) of an empty table is NULL and the
\* series of NULL has no rows.
IdsToCheck(rows, max) ==
    IF Stored(rows) = {} THEN << >>
    ELSE Ascending({sid \in MaxId(Stored(rows))..max : rows[sid] = "none"})

\* RetryHandler::handle for the attempt that failed and its error.
Handle(attempt, retry) ==
    IF attempt >= MaxAttempts THEN [forward |-> TRUE, wait |-> 0]
    ELSE IF ~retry THEN [forward |-> TRUE, wait |-> 0]
    ELSE [forward |-> FALSE, wait |-> 1 + attempt]

\* ImageData, the hash and hash_error columns of a row: whether each is
\* set, and what became of the image they were made from.
ImageData(hash, hash_error, image) ==
    [hash |-> hash, hash_error |-> hash_error, image |-> image]

\* A row or a post without an image: (None, None, None) of the e621 ingester.
NoImage == ImageData(FALSE, FALSE, "none")

\* An image that was loaded and hashed; load_image of the e621 ingester
\* for an image that does not decode.
Hashed == ImageData(TRUE, FALSE, "decoded")

Undecodable == ImageData(FALSE, TRUE, "failed")

\* The submission as process_submission keeps it when calc_image_hash has
\* failed: no hash, and the INSERT of insert_submission has no hash_error.
Unhashed == ImageData(FALSE, FALSE, "failed")

IdleFa ==
    [rows |-> [id \in SubmissionIds |-> "none"], pc |-> "off", latest |-> 0,
     todo |-> << >>, id |-> 0, attempt |-> 0, waits |-> << >>, why |-> "none",
     failures |-> 0, others |-> 0,
     cols |-> [id \in SubmissionIds |-> NoImage], image |-> NoImage]

\* The worker starts on a table with any rows.
FaStarts ==
    {[IdleFa EXCEPT !.pc = "latest_id", !.rows = rows,
                    !.cols = [id \in SubmissionIds |->
                                 IF rows[id] = "full" THEN Hashed ELSE NoImage]] :
         rows \in Tables}

(***************************************************************************)
(* The Weasyl ingester (fuzzysearch-ingest-weasyl) and the weasyl table    *)
(***************************************************************************)

\* SELECT max(id) id FROM weasyl, with unwrap_or_default.
MaxStored(rows) == IF Stored(rows) = {} THEN 0 ELSE MaxId(Stored(rows))

IdleWeasyl ==
    [rows |-> [id \in SubmissionIds |-> "none"], pc |-> "off", at |-> "none",
     min |-> 0, max |-> 0, id |-> 0, hash |-> FALSE, queued |-> {},
     start |-> 0, restarts |-> 0]

\* The worker is started on a table; start is the highest id stored then.
WeasylStarts ==
    {[IdleWeasyl EXCEPT !.pc = "range", !.rows = rows, !.start = MaxStored(rows)] :
        rows \in Tables}


(***************************************************************************)
(* The e621 ingester (fuzzysearch-ingest-e621) and the e621 table          *)
(***************************************************************************)

\* A page: the posts after min_id up to some id, oldest first.
Page(after_id, upto) == Ascending({id \in SubmissionIds : id > after_id /\ id <= upto})

IdleE621 ==
    [rows |-> [id \in SubmissionIds |-> "none"], pc |-> "off", min_id |-> 0,
     posts |-> << >>, tx |-> {}, queued |-> {},
     cols |-> [id \in SubmissionIds |-> NoImage], image |-> NoImage,
     written |-> [id \in SubmissionIds |-> NoImage], others |-> 0]

\* The worker starts on a table with any rows; min_id is its highest id.
E621Starts ==
    {[IdleE621 EXCEPT !.pc = "load_page", !.rows = rows, !.min_id = MaxStored(rows),
                      !.cols = [id \in SubmissionIds |->
                                   IF rows[id] = "full" THEN Hashed ELSE NoImage]] :
         rows \in [SubmissionIds -> {"none", "full"}]}

(***************************************************************************)
(* The refresh worker (fuzzysearch-refresh): the furaffinity_load handler  *)
(* and the row of the job's id. Time is counted in half days.              *)
(***************************************************************************)

UnitsPerDay == 2
RefreshDays == 30
Now0 == 90
MaxTicks == 2
MaxLoads == 2

\* chrono::Duration::num_days: whole days, rounded towards zero.
NumDays(d) == IF d >= 0 THEN d \div UnitsPerDay ELSE -((-d) \div UnitsPerDay)

\* The test of the handler: last_updated.signed_duration_since(now).
SkipsLoad(last_updated, t) == NumDays(last_updated - t) < RefreshDays

\* The updated_at values a stored row starts with, as days before Now0
\* (in half days).
Ages == {0, 1, 58, 59, 60, 61, 80}

NoRow == [row |-> FALSE, updated_at |-> None, deleted |-> FALSE]

SubmissionRow(updated_at, deleted) == [row |-> TRUE, updated_at |-> updated_at, deleted |-> deleted]

IdleRefresh ==
    [stored |-> NoRow, pc |-> "off", time |-> Now0, last_updated |-> None, at |-> 0,
     sub |-> FALSE, loads |-> 0]

RefreshStarts ==
    {[IdleRefresh EXCEPT !.pc = "job", !.stored = stored] :
         stored \in {NoRow, SubmissionRow(None, FALSE)} \cup {SubmissionRow(Some(Now0 - a), FALSE) : a \in Ages}}

(***************************************************************************)
(* The refresh worker: poll_fa_online and the queue                        *)
(* fuzzysearch_refresh_furaffinity                                         *)
(***************************************************************************)

DefaultMaxOnline == 10000
MaxPolls == 4

\* MAX_ONLINE as the environment may give it.
MaxOnlines == {DefaultMaxOnline, 2}

\* What latest_id reports as registered users online; Unmeasured stands
\* for a latest_id that failed.
Unmeasured == -1

Measures(max_online) == {max_online - 1, max_online, max_online + 1}

\* The value of continue_queue for the answer of latest_id.
ContinueQueue(registered, max_online) ==
    IF registered = Unmeasured THEN FALSE ELSE registered < max_online

IdlePoll ==
    [pc |-> "off", max_online |-> DefaultMaxOnline, queue_state |-> TRUE,
     running |-> TRUE, registered |-> Unmeasured, continue_queue |-> TRUE,
     result |-> "none", polls |-> 0]

\* The task starts with either threshold and with the queue as an earlier
\* run of the worker has left it.
PollStarts ==
    {[IdlePoll EXCEPT !.pc = "init", !.max_online = m, !.running = r] :
         m \in MaxOnlines, r \in BOOLEAN}

ExtVarsInit ==
    /\ codec = IdleCodec
    /\ HiInit
    /\ fa = IdleFa
    /\ weasyl = IdleWeasyl
    /\ e621 = IdleE621
    /\ refresh = IdleRefresh
    /\ poll = IdlePoll

(***************************************************************************)
(* Initial values of the groups of variables                               *)
(***************************************************************************)

IdleLookup ==
    [pc |-> "idle", hashes |-> << >>, distance |-> 0, query_hash |-> 0,
     items |-> << >>, results |-> {}, asked |-> << >>, must |-> {}, view |-> BKNew]

NoPayload == [hash |-> 0, id |-> 0, json |-> TRUE]

\* A notification whose payload is no JSON of a HashRow.
Malformed == [hash |-> 0, id |-> 0, json |-> FALSE]

MaxMalformed == 1

FindVarsInit ==
    /\ inserted = {}
    /\ fq = NoQuery

IndexVarsInit ==
    /\ tree = BKNew
    /\ db = << >>
    /\ notifq = << >>
    /\ conn = "none"
    /\ mpc = "init"
    /\ new_tree = BKNew
    /\ cursor = {}
    /\ payload = NoPayload
    /\ serving = FALSE
    /\ readers = 0
    /\ lk = IdleLookup
    /\ hist = [processed |-> {}, gap |-> {}, prev_tree |-> BKNew, snapshot |-> {},
               last |-> "none", slept |-> 0, malformed |-> 0]

ApiVarsInit ==
    /\ now = Times[1]
    /\ rate_limit = << >>
    /\ indexed = 0
    /\ req = [r \in Slots |-> IdleRequest]
    /\ ahist = [started |-> 0, sum |-> << >>, admitted |-> << >>]

(***************************************************************************)
(* The pure-function specification of the index: any tree built by         *)
(* create_tree's row step, searched with any hash and radius.              *)
(***************************************************************************)

FindInit == FindVarsInit /\ IndexVarsInit /\ ApiVarsInit /\ HookVarsInit /\ ExtVarsInit

FindInsert ==
    \E h \in Hashes :
        /\ Len(tree) < MaxTreeNodes
        /\ tree' = TreeInsert(tree, h)
        /\ inserted' = inserted \cup {h}
        /\ fq' = NoQuery
        /\ UNCHANGED <<db, notifq, conn, mpc, new_tree, cursor, payload, serving,
                       readers, lk, hist, apiVars, hookVars, extVars>>

FindQuery ==
    \E h \in Hashes, d \in Radii :
        /\ ~fq.done
        /\ fq' = [hash |-> h, distance |-> d, items |-> QueryItems(tree, h, d), done |-> TRUE]
        /\ UNCHANGED <<inserted, indexVars, apiVars, hookVars, extVars>>

FindNext == FindInsert \/ FindQuery

SpecFind == FindInit /\ [][FindNext]_vars

(***************************************************************************)
(* The metadata store as the index sees it                                 *)
(***************************************************************************)

\* A row with a perceptual hash, or one without (hash_int IS NULL).
Row(hashed, h) == [has_hash |-> hashed, hash |-> IF hashed THEN h ELSE 0]

\* An ingest worker commits a row.  The store notifies hash_added for a
\* hashed row; the notification reaches the listener only over a live
\* connection.
IngestCommit ==
    \E h \in IngestHashes, hashed \in BOOLEAN :
        /\ Len(db) < MaxRows
        /\ db' = Append(db, Row(hashed, h))
        /\ notifq' = IF hashed /\ conn = "up"
                     THEN Append(notifq, [hash |-> h, id |-> Len(db) + 1, json |-> TRUE])
                     ELSE notifq
        /\ hist' = IF hashed /\ conn # "up" /\ serving
                   THEN [hist EXCEPT !.gap = @ \cup {h}]
                   ELSE hist
        /\ UNCHANGED <<tree, conn, mpc, new_tree, cursor, payload, serving, readers, lk>>
        /\ UNCHANGED <<inserted, fq, apiVars, hookVars, extVars>>

\* The connection of the listener breaks.  (A notification lost in flight is
\* the same as one for a row committed just after the break.)
ConnDrop ==
    /\ conn = "up"
    /\ conn' = "broken"
    /\ UNCHANGED <<tree, db, notifq, mpc, new_tree, cursor, payload, serving, readers, lk, hist>>
    /\ UNCHANGED <<inserted, fq, apiVars, hookVars, extVars>>

\* The ids create_tree's query yields: the rows that have a hash.
HashedIds(d) == {id \in 1..Len(d) : d[id].has_hash}

\* A store query that also matches hashes near the one asked for.
DbLookupNear(d, num) ==
    {id \in HashedIds(d) : HammingDistance(NodeNew(d[id].hash), NodeNew(num)) <= 3}

\* image_query_sync's query: the rows whose hash is within distance 0 of num.
DbLookup(d, num) ==
    {id \in HashedIds(d) : HammingDistance(NodeNew(d[id].hash), NodeNew(num)) <= 0}

(***************************************************************************)
(* The index maintainer: load_updates and create_tree                      *)
(***************************************************************************)

\* A start that goes on to create_tree without a listening connection.
MListenDeaf ==
    /\ mpc = "init"
    /\ mpc' = "scan_start"
    /\ UNCHANGED <<tree, db, notifq, conn, new_tree, cursor, payload, serving, readers, lk, hist>>
    /\ UNCHANGED <<inserted, fq, apiVars, hookVars, extVars>>

\* PgListener::connect_with and listen("fuzzysearch_hash_added").
MListen ==
    /\ mpc = "init"
    /\ conn' = "up"
    /\ mpc' = "scan_start"
    /\ UNCHANGED <<tree, db, notifq, new_tree, cursor, payload, serving, readers, lk, hist>>
    /\ UNCHANGED <<inserted, fq, apiVars, hookVars, extVars>>

\* create_tree: a fresh private tree, and the query over the rows committed
\* when it starts.
MScanStart ==
    /\ mpc = "scan_start"
    /\ new_tree' = BKNew
    /\ cursor' = HashedIds(db)
    /\ mpc' = "scan"
    /\ hist' = [hist EXCEPT !.prev_tree = tree,
                            !.snapshot = {db[id].hash : id \in HashedIds(db)}]
    /\ UNCHANGED <<tree, db, notifq, conn, payload, serving, readers, lk>>
    /\ UNCHANGED <<inserted, fq, apiVars, hookVars, extVars>>

\* A row step of create_tree that adds to the shared tree.
MScanRowInPlace ==
    \E id \in {i \in cursor : \A j \in cursor : i <= j} :
        /\ mpc = "scan"
        /\ readers = 0
        /\ tree' = TreeInsert(tree, db[id].hash)
        /\ cursor' = cursor \ {id}
        /\ UNCHANGED <<new_tree, db, notifq, conn, mpc, payload, serving, readers, lk, hist>>
        /\ UNCHANGED <<inserted, fq, apiVars, hookVars, extVars>>

\* create_tree, one fetched row (the rows come in the store's order).
MScanRow ==
    \E id \in {i \in cursor : \A j \in cursor : i <= j} :
        /\ mpc = "scan"
        /\ new_tree' = TreeInsert(new_tree, db[id].hash)
        /\ cursor' = cursor \ {id}
        /\ UNCHANGED <<tree, db, notifq, conn, mpc, payload, serving, readers, lk, hist>>
        /\ UNCHANGED <<inserted, fq, apiVars, hookVars, extVars>>

\* The built tree replaces the shared one under the write lock; after the
\* first build load_updates returns and the server starts.
MSwap ==
    /\ mpc = "scan"
    /\ cursor = {}
    /\ readers = 0
    /\ tree' = new_tree
    /\ new_tree' = BKNew
    /\ mpc' = "recv"
    /\ serving' = TRUE
    /\ hist' = [hist EXCEPT !.last = "swapped", !.prev_tree = BKNew]
    /\ UNCHANGED <<db, notifq, conn, cursor, payload, readers, lk>>
    /\ UNCHANGED <<inserted, fq, apiVars, hookVars, extVars>>

\* try_recv connects (and listens) again when the connection is gone.
MReconnect ==
    /\ mpc = "recv"
    /\ conn = "none"
    /\ conn' = "up"
    /\ UNCHANGED <<tree, db, notifq, mpc, new_tree, cursor, payload, serving, readers, lk, hist>>
    /\ UNCHANGED <<inserted, fq, apiVars, hookVars, extVars>>

\* try_recv returns a notification and its payload is parsed:
\* serde_json::from_str(..).unwrap() panics on a payload that is no HashRow,
\* and the panic ends the spawned task.
MRecv ==
    /\ mpc = "recv"
    /\ conn # "none"
    /\ notifq # << >>
    /\ payload' = Head(notifq)
    /\ notifq' = Tail(notifq)
    /\ mpc' = IF Head(notifq).json THEN "find" ELSE "panicked"
    /\ UNCHANGED <<tree, db, conn, new_tree, cursor, serving, readers, lk, hist>>
    /\ UNCHANGED <<inserted, fq, apiVars, hookVars, extVars>>

\* try_recv returns None: the connection was lost.
MRecvLost ==
    /\ mpc = "recv"
    /\ conn = "broken"
    /\ notifq = << >>
    /\ conn' = "none"
    /\ mpc' = "sleep"
    /\ hist' = [hist EXCEPT !.slept = 0]
    /\ UNCHANGED <<tree, db, notifq, new_tree, cursor, payload, serving, readers, lk>>
    /\ UNCHANGED <<inserted, fq, apiVars, hookVars, extVars>>

\* A notification step that takes every hash for present.
MFindAlwaysPresent ==
    /\ mpc = "find"
    /\ mpc' = "recv"
    /\ payload' = NoPayload
    /\ hist' = [hist EXCEPT !.processed = @ \cup {payload.id}, !.last = "skipped"]
    /\ UNCHANGED <<tree, db, notifq, conn, new_tree, cursor, serving, readers, lk>>
    /\ UNCHANGED <<inserted, fq, apiVars, hookVars, extVars>>

\* find_exact under the read lock; a hash that is present is skipped.
MFind ==
    /\ mpc = "find"
    /\ IF BKFindExact(tree, NodeNew(payload.hash))
       THEN /\ mpc' = "recv"
            /\ payload' = NoPayload
            /\ hist' = [hist EXCEPT !.processed = @ \cup {payload.id}, !.last = "skipped"]
       ELSE /\ mpc' = "add"
            /\ UNCHANGED <<payload, hist>>
    /\ UNCHANGED <<tree, db, notifq, conn, new_tree, cursor, serving, readers, lk>>
    /\ UNCHANGED <<inserted, fq, apiVars, hookVars, extVars>>

\* An add that does not wait for the read locks to be dropped.
MAddUnlocked ==
    /\ mpc = "add"
    /\ tree' = BKAdd(tree, NodeNew(payload.hash))
    /\ mpc' = "recv"
    /\ payload' = NoPayload
    /\ hist' = [hist EXCEPT !.processed = @ \cup {payload.id}, !.last = "added"]
    /\ UNCHANGED <<db, notifq, conn, new_tree, cursor, serving, readers, lk>>
    /\ UNCHANGED <<inserted, fq, apiVars, hookVars, extVars>>

\* add under the write lock.
MAdd ==
    /\ mpc = "add"
    /\ readers = 0
    /\ tree' = BKAdd(tree, NodeNew(payload.hash))
    /\ mpc' = "recv"
    /\ payload' = NoPayload
    /\ hist' = [hist EXCEPT !.processed = @ \cup {payload.id}, !.last = "added"]
    /\ UNCHANGED <<db, notifq, conn, new_tree, cursor, serving, readers, lk>>
    /\ UNCHANGED <<inserted, fq, apiVars, hookVars, extVars>>

\* "Lost connection to Postgres, recreating tree": sleep, then create_tree.
MSleep ==
    /\ mpc = "sleep"
    /\ mpc' = "scan_start"
    /\ hist' = [hist EXCEPT !.slept = SleepSecs]
    /\ UNCHANGED <<tree, db, notifq, conn, new_tree, cursor, payload, serving, readers, lk>>
    /\ UNCHANGED <<inserted, fq, apiVars, hookVars, extVars>>

Maintainer ==
    \/ MListen \/ MScanStart \/ MScanRow \/ MSwap \/ MReconnect
    \/ MRecv \/ MRecvLost \/ MFind \/ MAdd \/ MSleep

(***************************************************************************)
(* A lookup: image_query_sync                                              *)
(***************************************************************************)

\* image_query is called with the hashes and the distance of a request.
LookupStart ==
    \E h \in LookupHashes, d \in LookupRadii :
        /\ serving
        /\ lk.pc = "idle"
        /\ lk' = [IdleLookup EXCEPT !.pc = "next", !.hashes = << h >>, !.distance = d,
                                    !.asked = << h >>, !.must = hist.processed]
        /\ UNCHANGED <<tree, db, notifq, conn, mpc, new_tree, cursor, payload, serving,
                       readers, hist>>
        /\ UNCHANGED <<inserted, fq, apiVars, hookVars, extVars>>

\* The next query hash: take the read lock and search the tree.
LookupFind ==
    /\ lk.pc = "next"
    /\ lk.hashes # << >>
    /\ readers' = readers + 1
    /\ lk' = [lk EXCEPT !.pc = "rows", !.query_hash = Head(lk.hashes),
                        !.items = QueryItems(tree, Head(lk.hashes), lk.distance),
                        !.view = tree]
    /\ UNCHANGED <<tree, db, notifq, conn, mpc, new_tree, cursor, payload, serving, hist>>
    /\ UNCHANGED <<inserted, fq, apiVars, hookVars, extVars>>

\* The store is asked for the rows of one found hash.
LookupRow ==
    /\ lk.pc = "rows"
    /\ lk.items # << >>
    /\ LET it == Head(lk.items)
           found == {[id |-> id, hash |-> db[id].hash, distance |-> it.dist,
                      searched_hash |-> lk.query_hash] : id \in DbLookup(db, NodeNum(it.item))}
       IN  lk' = [lk EXCEPT !.items = Tail(lk.items), !.results = @ \cup found]
    /\ UNCHANGED <<tree, db, notifq, conn, mpc, new_tree, cursor, payload, serving,
                   readers, hist>>
    /\ UNCHANGED <<inserted, fq, apiVars, hookVars, extVars>>

\* The items of this query hash are done: the read lock is dropped.
LookupRelease ==
    /\ lk.pc = "rows"
    /\ lk.items = << >>
    /\ readers' = readers - 1
    /\ lk' = [lk EXCEPT !.hashes = Tail(lk.hashes), !.view = BKNew,
                        !.pc = IF Tail(lk.hashes) = << >> THEN "done" ELSE "next"]
    /\ UNCHANGED <<tree, db, notifq, conn, mpc, new_tree, cursor, payload, serving, hist>>
    /\ UNCHANGED <<inserted, fq, apiVars, hookVars, extVars>>

\* The caller has the matches.
LookupFinish ==
    /\ lk.pc = "done"
    /\ lk' = IdleLookup
    /\ UNCHANGED <<tree, db, notifq, conn, mpc, new_tree, cursor, payload, serving,
                   readers, hist>>
    /\ UNCHANGED <<inserted, fq, apiVars, hookVars, extVars>>

Lookup == LookupStart \/ LookupFind \/ LookupRow \/ LookupRelease \/ LookupFinish

IndexInit == FindVarsInit /\ IndexVarsInit /\ ApiVarsInit /\ HookVarsInit /\ ExtVarsInit

IndexNext == IngestCommit \/ ConnDrop \/ Maintainer \/ Lookup

SpecIndex == IndexInit /\ [][IndexNext]_vars

\* The index from the start of the process on, with no lookup running (a
\* lookup only holds the read lock for a while).  The maintainer's task is
\* scheduled whenever it can take a step.
StartupNext == IngestCommit \/ ConnDrop \/ Maintainer

SpecStartup == IndexInit /\ [][StartupNext]_vars /\ WF_vars(Maintainer)

\* NOTIFY fuzzysearch_hash_added with a payload that is no HashRow reaches
\* the listener.
NotifyMalformed ==
    /\ conn = "up"
    /\ hist.malformed < MaxMalformed
    /\ notifq' = Append(notifq, Malformed)
    /\ hist' = [hist EXCEPT !.malformed = @ + 1]
    /\ UNCHANGED <<tree, db, conn, mpc, new_tree, cursor, payload, serving, readers, lk>>
    /\ UNCHANGED <<inserted, fq, apiVars, hookVars, extVars>>

\* The index under notifications of any payload.
NotifyNext == IndexNext \/ NotifyMalformed

SpecNotify == IndexInit /\ [][NotifyNext]_vars

(***************************************************************************)
(* The API server: the /image and /url handlers                            *)
(***************************************************************************)

maintVars == <<inserted, fq, notifq, conn, mpc, new_tree, cursor, payload, serving,
               readers, lk, hist>>

\* The status a handler's outcome is answered with: the three responses of
\* RateLimitedResponse, the RateLimited error, and the Error variants.
StatusOf(outcome) ==
    CASE outcome = "Available" -> 200
      [] outcome = "BadRequestResponse" -> 400
      [] outcome = "RateLimited" -> 429
      [] outcome = "Unauthorized" -> 401
      [] OTHER -> 500

\* The handler of q returns `outcome`.
Returned(q, outcome, message) ==
    [q EXCEPT !.pc = "done", !.status = StatusOf(outcome), !.error = message]

\* A client sends a request: the X-Api-Key header, the endpoint, and the
\* search type, distance and hashes parameter the endpoint takes.
Request(r, header, ep, st, d, param) ==
    /\ req[r].pc = "idle"
    /\ ahist.started < MaxRequests
    /\ req' = [req EXCEPT ![r] =
                  [IdleRequest EXCEPT !.pc = "auth", !.ep = ep, !.header = header,
                                      !.search_type = st, !.distance = DistanceOf(d),
                                      !.param = param, !.given = d]]
    /\ ahist' = [ahist EXCEPT !.started = @ + 1]
    /\ UNCHANGED <<now, rate_limit, indexed, tree, db, maintVars, hookVars, extVars>>

NoDistance == [some |-> FALSE, value |-> 0]

\* /image with any search type, one request at a time.
ImageRequest ==
    \E key \in ApiKeys, st \in SearchTypes :
        Request(CHOOSE r \in Slots : TRUE, HeaderOf(key), "image", st, NoDistance, NoParam)

\* /url with the default distance, on any slot.
UrlRequest ==
    \E r \in Slots, key \in ApiKeys :
        Request(r, HeaderOf(key), "url", "none", NoDistance, NoParam)

\* /hashes, to the handler of api/mod.rs and to the one of main.rs, with
\* no distance or one beyond the largest, one request at a time.
HashesRequest ==
    \E key \in {k \in ApiKeys \cup BulkKeys : k.image_limit > 0},
       ep \in {"hashes", "api_hashes"},
       d \in {NoDistance, [some |-> TRUE, value |-> MaxDistance + 1]},
       tokens \in TokenLists :
        Request(CHOOSE r \in Slots : TRUE, HeaderOf(key), ep, "none", d, ParamOf(tokens))

\* /url with no distance or the largest, one request at a time.
UrlDistanceRequest ==
    \E key \in ApiKeys, d \in {NoDistance, [some |-> TRUE, value |-> MaxDistance]} :
        Request(CHOOSE r \in Slots : TRUE, HeaderOf(key), "url", "none", d, NoParam)

\* A request without a key or with a key the store does not hold.
KeylessRequest ==
    \E header \in {NoHeader, UnknownKey}, ep \in {"image", "url", "hashes", "api_hashes"} :
        Request(CHOOSE r \in Slots : TRUE, header, ep, "none", NoDistance,
                IF ep \in {"hashes", "api_hashes"} THEN ParamOf(<< Num(0) >>) ELSE NoParam)

\* The request as its handler is entered with the key that was found: the
\* two /hashes handlers parse the parameter, and the one of api/mod.rs
\* answers an empty list at once; every other path starts with the charge
\* on the image bucket.
Entered(q, key) ==
    LET hashes == IF q.ep \in {"hashes", "api_hashes"} THEN ParseHashes(q.param.text) ELSE << >>
        e == [q EXCEPT !.key = key.id, !.hashes = hashes, !.group = "image",
                       !.incr_by = IF q.ep \in {"hashes", "api_hashes"} THEN Len(hashes) ELSE 1]
    IN  IF q.ep = "hashes" /\ hashes = << >>
        THEN Returned(e, "BadRequestResponse", "hashes must be provided")
        ELSE [e EXCEPT !.pc = "window"]

\* api_checker: the key of the header is looked up; without a header, when
\* no row is found and when the query fails the request is answered 401.
ApiChecker ==
    \E r \in Slots :
        LET q == req[r]
        IN  /\ q.pc = "auth"
            /\ \/ req' = [req EXCEPT ![r] = Returned(q, "Unauthorized", "unauthorized")]
               \/ \E key \in FoundKeys(q.header) :
                     req' = [req EXCEPT ![r] = Entered(q, key)]
            /\ UNCHANGED <<now, rate_limit, indexed, ahist, tree, db, maintVars, hookVars, extVars>>

\* update_rate_limit: the clock is read and the window computed.
UpdateRateLimitWindow ==
    \E r \in Slots :
        /\ req[r].pc = "window"
        /\ req' = [req EXCEPT ![r].time_window = TimeWindow(now), ![r].pc = "upsert"]
        /\ UNCHANGED <<now, rate_limit, indexed, ahist, tree, db, maintVars, hookVars, extVars>>

\* A handler that goes to its work after the charge on the image bucket.
AfterChargeImageOnly(q, verdict) ==
    IF verdict.limited
    THEN [Returned(q, "RateLimited", "rate limited") EXCEPT !.bucket = q.group]
    ELSE [q EXCEPT !.image_remaining = <<verdict.remaining, verdict.total>>,
                   !.pc = IF q.ep = "url" THEN "send"
                          ELSE IF q.ep = "image" THEN "hash_input" ELSE "search"]

\* The request after rate_limit! has seen the verdict of a charge: image
\* and url go on to the charge on the hash bucket and then to their work;
\* the /hashes handler of main.rs looks at the list only now.
AfterCharge(q, verdict) ==
    IF verdict.limited
    THEN [Returned(q, "RateLimited", "rate limited") EXCEPT !.bucket = q.group]
    ELSE IF q.ep = "hashes"
         THEN [q EXCEPT !.image_remaining = <<verdict.remaining, verdict.total>>,
                        !.pc = "search"]
    ELSE IF q.ep = "api_hashes"
         THEN IF q.hashes = << >>
              THEN Returned([q EXCEPT !.image_remaining = <<verdict.remaining, verdict.total>>],
                            "BadRequestResponse", "hashes must be provided")
              ELSE [q EXCEPT !.image_remaining = <<verdict.remaining, verdict.total>>,
                             !.pc = "search"]
    ELSE IF q.group = "image"
         THEN [q EXCEPT !.image_remaining = <<verdict.remaining, verdict.total>>,
                        !.group = "hash", !.pc = "window"]
         ELSE [q EXCEPT !.hash_remaining = <<verdict.remaining, verdict.total>>,
                        !.pc = IF q.ep = "url" THEN "send" ELSE "hash_input"]

\* update_rate_limit and rate_limit!: the upsert runs in the store and the
\* returned count is compared with the key's limit.  The store refuses a
\* count above i16::MAX, and the store may be out of reach.
UpdateRateLimitQuery ==
    \E r \in Slots :
        LET q == req[r]
            row == <<q.key, q.time_window, q.group>>
            prev == IF row \in DOMAIN rate_limit THEN rate_limit[row] ELSE 0
            count == UpsertCount(rate_limit, row, q.incr_by)
            verdict == RateLimitOf(count, KeyLimit(q.key, q.group))
            charge == [row |-> row, prev |-> prev, incr_by |-> q.incr_by, count |-> count,
                       outcome |-> "none"]
        IN  /\ q.pc = "upsert"
            /\ \/ /\ req' = [req EXCEPT ![r] =
                                [Returned(q, "Database", "store unavailable")
                                    EXCEPT !.charge = [charge EXCEPT !.outcome = "outage",
                                                                     !.count = 0]]]
                  /\ UNCHANGED <<rate_limit, ahist>>
               \/ /\ count > I16Max
                  /\ req' = [req EXCEPT ![r] =
                                [Returned(q, "Database", "smallint out of range")
                                    EXCEPT !.charge = [charge EXCEPT !.outcome = "overflow",
                                                                     !.count = 0]]]
                  /\ UNCHANGED <<rate_limit, ahist>>
               \/ /\ count <= I16Max
                  /\ rate_limit' = Upsert(rate_limit, row, q.incr_by)
                  /\ req' = [req EXCEPT ![r] =
                                [AfterCharge(q, verdict)
                                    EXCEPT !.charged = @ \cup {row},
                                           !.charge = [charge EXCEPT !.outcome =
                                               IF verdict.limited THEN "limited"
                                               ELSE "available"]]]
                  /\ ahist' = [ahist EXCEPT
                                  !.sum = Upsert(@, row, q.incr_by),
                                  !.admitted = Upsert(@, row, IF verdict.limited THEN 0
                                                              ELSE q.incr_by)]
            /\ UNCHANGED <<now, indexed, tree, db, maintVars, hookVars, extVars>>

\* url: the GET is sent; the advertised content-length is checked when the
\* response arrives.
UrlSend ==
    \E r \in Slots :
        LET q == req[r]
        IN  /\ q.pc = "send"
            /\ \/ req' = [req EXCEPT ![r] =
                             Returned([q EXCEPT !.work = Append(@, "fetch")],
                                      "Network", "fetch failed")]
               \/ \E b \in Bodies :
                     LET got == [q EXCEPT !.resp = b, !.body = b, !.work = Append(@, "fetch")]
                     IN  req' = [req EXCEPT ![r] =
                                    IF OverCap(b.content_length)
                                    THEN Returned(got, "BadRequestResponse", "image too large")
                                    ELSE [got EXCEPT !.buf = 0, !.pc = "chunk"]]
            /\ UNCHANGED <<now, rate_limit, indexed, ahist, tree, db, maintVars, hookVars, extVars>>

\* url: one turn of the chunk loop.
UrlChunk ==
    \E r \in Slots :
        LET q == req[r]
            chunks == q.resp.chunks
        IN  /\ q.pc = "chunk"
            /\ \/ req' = [req EXCEPT ![r] = Returned(q, "Network", "read failed")]
               \/ /\ chunks = << >>
                  /\ req' = [req EXCEPT ![r].pc = "hash_input"]
               \/ /\ chunks # << >>
                  /\ req' = [req EXCEPT ![r] =
                                IF OverCap(q.buf + Head(chunks))
                                THEN Returned(q, "BadRequestResponse", "image too large")
                                ELSE [q EXCEPT !.buf = @ + Head(chunks),
                                               !.resp.chunks = Tail(chunks)]]
            /\ UNCHANGED <<now, rate_limit, indexed, ahist, tree, db, maintVars, hookVars, extVars>>

\* The request after hash_input has returned a hash: image starts with the
\* distance its search type asks for, url with the requested distance.
AfterHashInput(q, h) ==
    [q EXCEPT !.hash = h, !.hashes = << h >>, !.pc = "search",
              !.distance = IF q.ep = "url" THEN q.distance
                           ELSE IF SearchTypeOf(q.search_type) = "force"
                                THEN ExpandedDistance ELSE ExactDistance]

\* A hash_input whose failure takes the charges of the request back.
HashInputRefund ==
    \E r \in Slots :
        LET q == req[r]
        IN  /\ q.pc = "hash_input"
            /\ req' = [req EXCEPT ![r] = Returned(q, "BadRequest", "invalid image")]
            /\ rate_limit' = [row \in DOMAIN rate_limit |->
                                 IF row \in q.charged THEN rate_limit[row] - 1
                                 ELSE rate_limit[row]]
            /\ UNCHANGED <<now, indexed, ahist, tree, db, maintVars, hookVars, extVars>>

\* hash_input: the image is posted to the hash service.
HashInput ==
    \E r \in Slots :
        LET q == req[r]
        IN  /\ q.pc = "hash_input"
            /\ LET p == [q EXCEPT !.work = Append(@, "hash")]
               IN  \/ req' = [req EXCEPT ![r] =
                                 Returned(p, "Network", "hash service unreachable")]
                   \/ req' = [req EXCEPT ![r] = Returned(p, "BadRequest", "invalid image")]
                   \/ \E h \in ImageHashes : req' = [req EXCEPT ![r] = AfterHashInput(p, h)]
            /\ UNCHANGED <<now, rate_limit, indexed, ahist, tree, db, maintVars, hookVars, extVars>>

\* lookup_hashes: the distance check and the search of the index service.
LookupHashesSearch ==
    \E r \in Slots :
        LET q == req[r]
        IN  /\ q.pc = "search"
            /\ \/ /\ q.distance > MaxDistance
                  /\ req' = [req EXCEPT ![r] = Returned(q, "BadRequest", "distance too large")]
               \/ /\ q.distance <= MaxDistance
                  /\ LET p == [q EXCEPT !.work = Append(@, "search")]
                     IN  \/ req' = [req EXCEPT ![r] =
                                       Returned(p, "Network", "index unreachable")]
                         \/ req' = [req EXCEPT ![r] =
                                       [p EXCEPT !.index_hashes =
                                                     SearchManyAll(tree, q.hashes, q.distance),
                                                 !.pc = "query"]]
            /\ UNCHANGED <<now, rate_limit, indexed, ahist, tree, db, maintVars, hookVars, extVars>>

\* The request after lookup_hashes has returned `results`: image expands a
\* first search that found nothing, and sorts what it answers with.
AfterLookup(q, results) ==
    LET looked == [q EXCEPT !.lookups = Append(@, [distance |-> q.distance,
                                                   results |-> results]),
                            !.index_hashes = << >>]
    IN  IF q.ep \in {"url", "hashes", "api_hashes"}
        THEN [Returned(looked, "Available", "none") EXCEPT !.matches = results]
        ELSE IF /\ SearchTypeOf(q.search_type) # "force"
                /\ q.lookups = << >>
                /\ ExpandSearch(SearchTypeOf(q.search_type), results)
             THEN [looked EXCEPT !.distance = ExpandedDistance, !.pc = "search"]
             ELSE [Returned(looked, "Available", "none")
                      EXCEPT !.matches = SortByDistance(results)]

\* lookup_hashes: the query that joins the index hits with the rows.
LookupHashesQuery ==
    \E r \in Slots :
        LET q == req[r]
        IN  /\ q.pc = "query"
            /\ LET p == [q EXCEPT !.work = Append(@, "query")]
               IN  \/ req' = [req EXCEPT ![r] = Returned(p, "Database", "store unavailable")]
                   \/ req' = [req EXCEPT ![r] = AfterLookup(p, JoinRows(db, q.index_hashes))]
            /\ UNCHANGED <<now, rate_limit, indexed, ahist, tree, db, maintVars, hookVars, extVars>>

\* The response is sent and the slot is free again.
Respond ==
    \E r \in Slots :
        /\ req[r].pc = "done"
        /\ req' = [req EXCEPT ![r] = IdleRequest]
        /\ UNCHANGED <<now, rate_limit, indexed, ahist, tree, db, maintVars, hookVars, extVars>>

\* Time passes.
Tick ==
    \E i \in 1..(Len(Times) - 1) :
        /\ now = Times[i]
        /\ now' = Times[i + 1]
        /\ UNCHANGED <<rate_limit, indexed, req, ahist, tree, db, maintVars, hookVars, extVars>>

\* An ingest worker commits a hashed row while the API serves.
ApiIngest ==
    \E h \in ApiIngestHashes :
        /\ Len(db) < MaxRows
        /\ db' = Append(db, Row(TRUE, h))
        /\ UNCHANGED <<now, rate_limit, indexed, req, ahist, tree, maintVars, hookVars, extVars>>

\* The index service takes in the next committed row.
BkapiIndex ==
    /\ indexed < Len(db)
    /\ indexed' = indexed + 1
    /\ tree' = TreeInsert(tree, db[indexed + 1].hash)
    /\ UNCHANGED <<now, rate_limit, req, ahist, db, maintVars, hookVars, extVars>>

Charge == UpdateRateLimitWindow \/ UpdateRateLimitQuery

LookupHashesCall == LookupHashesSearch \/ LookupHashesQuery

ApiInit == FindVarsInit /\ IndexVarsInit /\ ApiVarsInit /\ HookVarsInit /\ ExtVarsInit

\* The quota under /url requests handled at the same time, as time passes.
RateNext ==
    \/ UrlRequest \/ ApiChecker \/ Charge \/ UrlSend \/ UrlChunk \/ HashInput \/ LookupHashesCall
    \/ Respond \/ Tick

SpecRate == ApiInit /\ [][RateNext]_vars

\* The row of a key that has sent i16::MAX - 1 requests in the first window.
BusyRow == <<1, TimeWindow(Times[1]), "image">>

ApiVarsBusy ==
    /\ now = Times[1]
    /\ rate_limit = [row \in {BusyRow} |-> I16Max - 1]
    /\ indexed = 0
    /\ req = [r \in Slots |-> IdleRequest]
    /\ ahist = [started |-> 0,
                sum |-> [row \in {BusyRow} |-> I16Max - 1],
                admitted |-> [row \in {BusyRow} |-> KeyLimit(BusyRow[1], BusyRow[3])]]

BusyInit == FindVarsInit /\ IndexVarsInit /\ ApiVarsBusy /\ HookVarsInit /\ ExtVarsInit

\* The quota of a key that keeps sending requests after it was limited.
SpecBusy == BusyInit /\ [][RateNext]_vars

\* /image requests while rows are committed and indexed.
ImageNext ==
    \/ ImageRequest \/ ApiChecker \/ Charge \/ HashInput \/ LookupHashesCall \/ Respond
    \/ ApiIngest \/ BkapiIndex

SpecImage == ApiInit /\ [][ImageNext]_vars

\* /image and /url requests, one at a time, while rows are committed and
\* indexed.
LookupNext ==
    \/ ImageRequest \/ UrlDistanceRequest \/ ApiChecker \/ Charge \/ UrlSend \/ UrlChunk
    \/ HashInput \/ LookupHashesCall \/ Respond \/ ApiIngest \/ BkapiIndex

SpecLookup == ApiInit /\ [][LookupNext]_vars

\* /hashes requests, and requests without a valid key.
HashesNext ==
    \/ HashesRequest \/ KeylessRequest \/ ApiChecker \/ Charge \/ LookupHashesCall
    \/ Respond

SpecHashes == ApiInit /\ [][HashesNext]_vars


(***************************************************************************)
(* The webhook consumer: the new_submission and send_webhook handlers      *)
(***************************************************************************)

restVars == <<tree, inserted, fq, db, notifq, conn, mpc, new_tree, cursor, payload,
              serving, readers, lk, hist, apiVars>>

\* An ingester has stored a submission and queues its new_submission job;
\* a job with no argument stands for one put on the queue by other means.
QueueWebhook ==
    /\ whist.submitted < MaxSubmissions
    /\ \E args \in {<<data>> : data \in Payloads} \cup {<< >>} :
           faktory' = Append(faktory, NewSubmissionJob(whist.submitted + 1, args))
    /\ whist' = [whist EXCEPT !.submitted = @ + 1]
    /\ UNCHANGED <<webhook, consumer, restVars, extVars>>

\* A subscriber is added to the webhook table.
Subscribe ==
    /\ \E sub \in Subscribers \ webhook : webhook' = webhook \cup {sub}
    /\ UNCHANGED <<faktory, consumer, whist, restVars, extVars>>

\* run_to_completion: an idle worker takes the next job of the queue and
\* calls the handler registered for its kind.
Fetch ==
    \E w \in Workers :
        /\ consumer[w].pc = "idle"
        /\ faktory # << >>
        /\ consumer' = [consumer EXCEPT ![w] =
                           [IdleWorker EXCEPT !.pc = Head(faktory).kind,
                                              !.job = Head(faktory)]]
        /\ faktory' = Tail(faktory)
        /\ UNCHANGED <<webhook, whist, restVars, extVars>>

\* The queue after a handler has returned Err: the job comes back for
\* another attempt until its retries are used up.
Failed(queue, job) ==
    IF job.failures < RetryOf(job)
    THEN Append(queue, [job EXCEPT !.failures = @ + 1])
    ELSE queue

\* new_submission: the first argument, a connection of the pool and the
\* query of the webhook table.
NewSubmissionQuery ==
    \E w \in Workers :
        LET c == consumer[w]
        IN  /\ c.pc = "new_submission"
            /\ \/ /\ c.job.args = << >>
                  /\ faktory' = Failed(faktory, c.job)
                  /\ consumer' = [consumer EXCEPT ![w] = IdleWorker]
                  /\ UNCHANGED whist
               \/ /\ c.job.args # << >>
                  /\ whist.failed < MaxFailures
                  /\ faktory' = Failed(faktory, c.job)
                  /\ consumer' = [consumer EXCEPT ![w] = IdleWorker]
                  /\ whist' = [whist EXCEPT !.failed = @ + 1]
               \/ /\ c.job.args # << >>
                  /\ \E rows \in Orders(SelectEndpoint(webhook, Head(c.job.args))) :
                         consumer' = [consumer EXCEPT ![w] =
                                         [c EXCEPT !.data = Head(c.job.args), !.rows = rows,
                                                   !.subs = webhook, !.pc = "enqueue"]]
                  /\ UNCHANGED <<faktory, whist>>
            /\ UNCHANGED <<webhook, restVars, extVars>>

\* A loop that goes on to the next row when an enqueue has failed.
AfterEnqueueIgnored(c, ok) == [c EXCEPT !.rows = Tail(@)]

\* The worker after producer.enqueue has returned: the next row, or Err out
\* of the handler.
AfterEnqueue(c, ok) == IF ok THEN [c EXCEPT !.rows = Tail(@)] ELSE [c EXCEPT !.pc = "err"]

\* new_submission: one turn of the loop over the rows, with the producer
\* locked for the enqueue; after the last row the handler returns Ok and
\* the job is acknowledged.
NewSubmissionEnqueue ==
    \E w \in Workers :
        LET c == consumer[w]
        IN  /\ c.pc = "enqueue"
            /\ \/ /\ c.rows = << >>
                  /\ consumer' = [consumer EXCEPT ![w] = IdleWorker]
                  /\ whist' = [whist EXCEPT !.completed = @ \cup
                                   {[id |-> c.job.id, data |-> Head(c.job.args), subs |-> c.subs,
                                     failures |-> c.job.failures]}]
                  /\ UNCHANGED faktory
               \/ /\ c.rows # << >>
                  /\ consumer' = [consumer EXCEPT ![w] = AfterEnqueue(c, TRUE)]
                  /\ LET job == SendWebhookJob(c.job.id, c.data, Head(c.rows))
                     IN  /\ faktory' = Append(faktory, job)
                         /\ whist' = [whist EXCEPT !.enqueued = Counted(@,
                                          [id |-> job.id, data |-> job.args[1],
                                           endpoint |-> job.args[2]])]
               \/ /\ c.rows # << >>
                  /\ whist.failed < MaxFailures
                  /\ consumer' = [consumer EXCEPT ![w] = AfterEnqueue(c, FALSE)]
                  /\ whist' = [whist EXCEPT !.failed = @ + 1]
                  /\ UNCHANGED faktory
            /\ UNCHANGED <<webhook, restVars, extVars>>

\* The handler has returned Err and the worker reports the failure.
HandlerErr ==
    \E w \in Workers :
        /\ consumer[w].pc = "err"
        /\ faktory' = Failed(faktory, consumer[w].job)
        /\ consumer' = [consumer EXCEPT ![w] = IdleWorker]
        /\ UNCHANGED <<webhook, whist, restVars, extVars>>

\* send_webhook: the payload is posted to the endpoint; a transport error
\* or a status that is not a success is Err.
SendWebhookWithin(budget) ==
    \E w \in Workers :
        LET c == consumer[w]
        IN  /\ c.pc = "send_webhook"
            /\ \E out \in PostOutcomes :
                   \/ /\ PostOk(out)
                      /\ whist' = [whist EXCEPT !.posted = @ \cup
                                       {[id |-> c.job.id, data |-> c.job.args[1],
                                         endpoint |-> c.job.args[2]]},
                                                !.succeeded = @ \cup {out.status}]
                      /\ UNCHANGED faktory
                   \/ /\ ~PostOk(out)
                      /\ whist.failed < budget
                      /\ faktory' = Failed(faktory, c.job)
                      /\ whist' = [whist EXCEPT !.failed = @ + 1]
            /\ consumer' = [consumer EXCEPT ![w] = IdleWorker]
            /\ UNCHANGED <<webhook, restVars, extVars>>

\* send_webhook while few posts fail.
SendWebhook == SendWebhookWithin(MaxFailures)

\* send_webhook while an endpoint keeps failing.
SendWebhookFailing == SendWebhookWithin(MaxPostFailures)

HookInit == FindVarsInit /\ IndexVarsInit /\ ApiVarsInit /\ HookVarsInit /\ ExtVarsInit

HookNext ==
    \/ QueueWebhook \/ Subscribe \/ Fetch \/ NewSubmissionQuery
    \/ NewSubmissionEnqueue \/ HandlerErr \/ SendWebhook

SpecWebhook == HookInit /\ [][HookNext]_vars

\* The fan-out with endpoints that keep failing.
SendNext ==
    \/ QueueWebhook \/ Subscribe \/ Fetch \/ NewSubmissionQuery
    \/ NewSubmissionEnqueue \/ HandlerErr \/ SendWebhookFailing

SpecSend == HookInit /\ [][SendNext]_vars

(***************************************************************************)
(* A payload from queue_webhook to the POST of send_webhook                *)
(***************************************************************************)

\* queue_webhook: serde_json::value::to_value(data), with the WebHookData of
\* faktory.rs or, for an ingester that builds the one of types.rs, with that.
CodecQueue ==
    /\ codec.pc = "idle"
    /\ \E data \in WebHookDatas, encoder \in {"faktory", "types"} :
           /\ encoder = "types" => (data.site_id >= I32Min /\ data.site_id <= I32Max)
           /\ codec' = [codec EXCEPT !.pc = "queued", !.encoder = encoder, !.data = data,
                                     !.json = IF encoder = "types" THEN TypesSerialize(data)
                                              ELSE FaktorySerialize(data)]
    /\ UNCHANGED <<restVars, hookVars, notCodec>>

\* send_webhook: serde_json::value::from_value(data)?
CodecDecode ==
    /\ codec.pc = "queued"
    /\ LET d == TypesDeserialize(codec.json)
       IN  codec' = IF d.ok THEN [codec EXCEPT !.pc = "decoded", !.decoded = d.value]
                    ELSE [codec EXCEPT !.pc = "err"]
    /\ UNCHANGED <<restVars, hookVars, notCodec>>

\* send_webhook: client.post(endpoint).json(&value)
CodecPost ==
    /\ codec.pc = "decoded"
    /\ codec' = [codec EXCEPT !.pc = "posted", !.posted = TypesSerialize(codec.decoded)]
    /\ UNCHANGED <<restVars, hookVars, notCodec>>

CodecNext == CodecQueue \/ CodecDecode \/ CodecPost

SpecCodec == HookInit /\ [][CodecNext]_vars

(***************************************************************************)
(* post_image and process_image of the hash-input service                  *)
(***************************************************************************)

\* post_image: a request with an image field arrives and process_image
\* starts to write it to a temporary file.
PostImage ==
    /\ \E r \in HashSlots :
           /\ hi.pc[r] = "idle"
           /\ hi' = [hi EXCEPT !.pc[r] = "loading"]
    /\ UNCHANGED <<restVars, hookVars, notHi>>

\* process_image: the file is written (or writing it fails) and the
\* request comes to semaphore.acquire().
ImageLoaded ==
    /\ \E r \in HashSlots :
           /\ hi.pc[r] = "loading"
           /\ \/ hi' = [hi EXCEPT !.pc[r] = "acquire"]
              \/ hi' = [hi EXCEPT !.pc[r] = "idle", !.answered = @ \cup {"Error"}]
    /\ UNCHANGED <<restVars, hookVars, notHi>>

\* process_image: a permit is there; the request takes it and hands the
\* decoding and hashing to spawn_blocking.
AcquirePermit ==
    /\ \E r \in HashSlots :
           /\ hi.pc[r] = "acquire"
           /\ hi.permits > 0
           /\ hi' = [hi EXCEPT !.pc[r] = "hashing", !.permits = @ - 1]
    /\ UNCHANGED <<restVars, hookVars, notHi>>

\* process_image: the blocking task returns a hash or an error, the permit
\* is dropped and the response is made.
HashReturned ==
    /\ \E r \in HashSlots, result \in {"Hash", "Error"} :
           /\ hi.pc[r] = "hashing"
           /\ hi' = [hi EXCEPT !.pc[r] = "idle", !.permits = @ + 1,
                               !.answered = @ \cup {result}]
    /\ UNCHANGED <<restVars, hookVars, notHi>>

\* The client goes away and the handler's future is dropped where it
\* waits: a permit it holds is dropped with it, and a blocking task it has
\* started runs on to its end.
Cancelled ==
    /\ hi.cancels < MaxCancels
    /\ \E r \in HashSlots :
           /\ hi.pc[r] \in {"loading", "acquire", "hashing"}
           /\ hi' = [hi EXCEPT !.pc[r] = "idle", !.cancels = @ + 1,
                               !.permits = IF hi.pc[r] = "hashing" THEN @ + 1 ELSE @,
                               !.detached = IF hi.pc[r] = "hashing" THEN @ + 1 ELSE @]
    /\ UNCHANGED <<restVars, hookVars, notHi>>

\* A blocking task whose request is gone comes to its end.
DetachedDone ==
    /\ hi.detached > 0
    /\ hi' = [hi EXCEPT !.detached = @ - 1]
    /\ UNCHANGED <<restVars, hookVars, notHi>>

HashInputNext ==
    \/ PostImage \/ ImageLoaded \/ AcquirePermit \/ HashReturned \/ Cancelled
    \/ DetachedDone

SpecHashInput == HookInit /\ [][HashInputNext]_vars

(***************************************************************************)
(* The FurAffinity ingester: main and process_submission                   *)
(***************************************************************************)

OtherVarsInit == FindVarsInit /\ IndexVarsInit /\ ApiVarsInit /\ HookVarsInit

\* main: latest_id is answered and ids_to_check makes the list of the cycle.
FaIdsToCheck ==
    /\ fa.pc = "latest_id"
    /\ \E latest \in SubmissionIds :
           fa' = [fa EXCEPT !.pc = "loop", !.latest = latest,
                            !.todo = IdsToCheck(fa.rows, latest)]
    /\ UNCHANGED <<restVars, hookVars, notFa>>

\* main: latest_id fails and expect_or_log panics.
FaLatestIdFailed ==
    /\ fa.pc = "latest_id"
    /\ fa' = [fa EXCEPT !.pc = "panicked"]
    /\ UNCHANGED <<restVars, hookVars, notFa>>

\* main: the list is done; the next cycle starts after a minute.
FaSleep ==
    /\ fa.pc = "loop"
    /\ fa.todo = << >>
    /\ fa' = [fa EXCEPT !.pc = "latest_id"]
    /\ UNCHANGED <<restVars, hookVars, notFa>>

\* process_submission without has_submission: every listed id is loaded.
FaProcessSubmissionUnchecked ==
    /\ fa.pc = "loop"
    /\ fa.todo # << >>
    /\ fa' = [fa EXCEPT !.pc = "get_submission", !.id = Head(fa.todo),
                        !.attempt = FirstAttempt, !.waits = << >>, !.why = "none"]
    /\ UNCHANGED <<restVars, hookVars, notFa>>

\* process_submission: has_submission, and the first get_submission is
\* started for an id without a row.
FaProcessSubmission ==
    /\ fa.pc = "loop"
    /\ fa.todo # << >>
    /\ LET id == Head(fa.todo) IN
           fa' = IF fa.rows[id] # "none"
                 THEN [fa EXCEPT !.todo = Tail(@), !.id = id]
                 ELSE [fa EXCEPT !.pc = "get_submission", !.id = id,
                                 !.attempt = FirstAttempt, !.waits = << >>,
                                 !.why = "none"]
    /\ UNCHANGED <<restVars, hookVars, notFa>>

\* process_submission: one attempt of get_submission under RetryHandler;
\* why is the answer or the error that ends the attempts.
FaGetSubmission ==
    /\ fa.pc = "get_submission"
    /\ \E out \in {"some", "none", "retry", "no_retry"} :
           fa' = IF out = "some"
                 THEN [fa EXCEPT !.pc = "calc_image_hash", !.attempt = FirstAttempt,
                                 !.image = NoImage]
                 ELSE IF out = "none"
                 THEN [fa EXCEPT !.pc = "insert_null", !.why = out]
                 ELSE LET h == Handle(fa.attempt, out = "retry") IN
                      IF h.forward
                      THEN [fa EXCEPT !.pc = "insert_null", !.why = out]
                      ELSE [fa EXCEPT !.attempt = @ + 1,
                                      !.waits = Append(@, h.wait)]
    /\ UNCHANGED <<restVars, hookVars, notFa>>

\* process_submission: one attempt of calc_image_hash under RetryHandler;
\* a submission whose image cannot be hashed is kept as it was loaded.
FaCalcImageHash ==
    /\ fa.pc = "calc_image_hash"
    /\ \E out \in {"ok", "retry", "no_retry"} :
           fa' = IF out = "ok"
                 THEN [fa EXCEPT !.pc = "insert_submission", !.image = Hashed]
                 ELSE IF Handle(fa.attempt, out = "retry").forward
                 THEN [fa EXCEPT !.pc = "insert_submission", !.image = Unhashed]
                 ELSE [fa EXCEPT !.attempt = @ + 1]
    /\ UNCHANGED <<restVars, hookVars, notFa>>

\* The INSERT of insert_null_submission or insert_submission: a second row
\* for an id is refused, and unwrap_or_log panics on every error.
FaInsertAs(kind) ==
    \/ /\ fa.rows[fa.id] = "none"
       /\ fa' = [fa EXCEPT !.rows[fa.id] = kind, !.todo = Tail(@), !.pc = "loop",
                           !.cols[fa.id] = IF kind = "full" THEN fa.image ELSE NoImage]
    \/ /\ fa.rows[fa.id] # "none" \/ fa.failures < MaxStoreFailures
       /\ fa' = [fa EXCEPT !.pc = "panicked",
                           !.failures = IF fa.rows[fa.id] = "none" THEN @ + 1 ELSE @]

FaInsertNull ==
    /\ fa.pc = "insert_null"
    /\ FaInsertAs("null")
    /\ UNCHANGED <<restVars, hookVars, notFa>>

FaInsertSubmission ==
    /\ fa.pc = "insert_submission"
    /\ FaInsertAs("full")
    /\ UNCHANGED <<restVars, hookVars, notFa>>

\* The refresh worker writes the row of an id the table does not have
\* (update_furaffinity_submission).
RefreshWrites ==
    /\ fa.pc # "off"
    /\ fa.others < MaxOtherWrites
    /\ \E id \in SubmissionIds :
           /\ fa.rows[id] = "none"
           /\ fa' = [fa EXCEPT !.rows[id] = "full", !.cols[id] = Hashed,
                               !.others = @ + 1]
    /\ UNCHANGED <<restVars, hookVars, notFa>>

FaInit ==
    /\ OtherVarsInit
    /\ codec = IdleCodec
    /\ HiInit
    /\ fa \in FaStarts
    /\ weasyl = IdleWeasyl
    /\ e621 = IdleE621
    /\ refresh = IdleRefresh
    /\ poll = IdlePoll

FaNext ==
    \/ FaIdsToCheck \/ FaLatestIdFailed \/ FaSleep \/ FaProcessSubmission
    \/ FaGetSubmission \/ FaCalcImageHash \/ FaInsertNull \/ FaInsertSubmission
    \/ RefreshWrites

SpecFa == FaInit /\ [][FaNext]_vars

(***************************************************************************)
(* The Weasyl ingester: main and process_submission                        *)
(***************************************************************************)

\* unwrap_or_log on an Err: the process panics where it stands.
WeasylPanics == [weasyl EXCEPT !.pc = "panicked", !.at = weasyl.pc]

\* The loop goes on to the next id.
WeasylContinue(w) == [w EXCEPT !.pc = "loop", !.id = @ + 1]

\* main: the highest stored id and the highest id of the front page give
\* the range of the cycle; either query can fail.
WeasylRange ==
    /\ weasyl.pc = "range"
    /\ \/ \E max \in 0..MaxSubmissionId :
              weasyl' = [weasyl EXCEPT !.pc = "loop", !.min = MaxStored(weasyl.rows),
                                       !.max = max, !.id = MaxStored(weasyl.rows) + 1]
       \/ weasyl' = WeasylPanics
    /\ UNCHANGED <<restVars, hookVars, notWeasyl>>

\* main: the range is done; the next cycle starts after five minutes.
WeasylSleep ==
    /\ weasyl.pc = "loop"
    /\ weasyl.id > weasyl.max
    /\ weasyl' = [weasyl EXCEPT !.pc = "range"]
    /\ UNCHANGED <<restVars, hookVars, notWeasyl>>

\* main: an id with a row is passed over; the others are loaded.
WeasylCheck ==
    /\ weasyl.pc = "loop"
    /\ weasyl.id <= weasyl.max
    /\ \/ weasyl' = IF weasyl.rows[weasyl.id] # "none"
                    THEN WeasylContinue(weasyl)
                    ELSE [weasyl EXCEPT !.pc = "load_submission"]
       \/ weasyl' = WeasylPanics
    /\ UNCHANGED <<restVars, hookVars, notWeasyl>>

\* load_submission: a visual submission, no submission (not visual,
\* missing, or a body that does not parse), or an error.
WeasylLoadSubmission ==
    /\ weasyl.pc = "load_submission"
    /\ \/ weasyl' = [weasyl EXCEPT !.pc = "download"]
       \/ weasyl' = [weasyl EXCEPT !.pc = "insert_null"]
       \/ weasyl' = WeasylPanics
    /\ UNCHANGED <<restVars, hookVars, notWeasyl>>

\* process_submission: the file is downloaded and hashed; a file that is
\* no image has no hash, a failed download is an Err.
WeasylDownload ==
    /\ weasyl.pc = "download"
    /\ \/ \E hash \in BOOLEAN :
              weasyl' = [weasyl EXCEPT !.pc = "insert", !.hash = hash]
       \/ weasyl' = WeasylPanics
    /\ UNCHANGED <<restVars, hookVars, notWeasyl>>

\* process_submission: the INSERT INTO weasyl, on the pool.
WeasylInsert ==
    /\ weasyl.pc = "insert"
    /\ \/ /\ weasyl.rows[weasyl.id] = "none"
          /\ weasyl' = [weasyl EXCEPT !.pc = "queue_webhook", !.rows[weasyl.id] = "full"]
       \/ weasyl' = WeasylPanics
    /\ UNCHANGED <<restVars, hookVars, notWeasyl>>

\* process_submission: queue_webhook after the row is stored.
WeasylQueueWebhook ==
    /\ weasyl.pc = "queue_webhook"
    /\ \/ weasyl' = WeasylContinue([weasyl EXCEPT !.queued = @ \cup {weasyl.id}])
       \/ weasyl' = WeasylPanics
    /\ UNCHANGED <<restVars, hookVars, notWeasyl>>

\* An insert_null that returns Ok without a row.
WeasylInsertNullSkipped ==
    /\ weasyl.pc = "insert_null"
    /\ \/ weasyl' = WeasylContinue(weasyl)
       \/ weasyl' = WeasylPanics
    /\ UNCHANGED <<restVars, hookVars, notWeasyl>>

\* insert_null: the row of an id that has no submission.
WeasylInsertNull ==
    /\ weasyl.pc = "insert_null"
    /\ \/ /\ weasyl.rows[weasyl.id] = "none"
          /\ weasyl' = WeasylContinue([weasyl EXCEPT !.rows[weasyl.id] = "null"])
       \/ weasyl' = WeasylPanics
    /\ UNCHANGED <<restVars, hookVars, notWeasyl>>

\* The process that ended in a panic is started again: main begins with
\* the table as it is.
WeasylRestart ==
    /\ weasyl.pc = "panicked"
    /\ weasyl.restarts < MaxRestarts
    /\ weasyl' = [weasyl EXCEPT !.pc = "range", !.at = "none", !.min = 0, !.max = 0,
                                !.id = 0, !.hash = FALSE, !.restarts = @ + 1]
    /\ UNCHANGED <<restVars, hookVars, notWeasyl>>

WeasylInit ==
    /\ OtherVarsInit
    /\ codec = IdleCodec
    /\ HiInit
    /\ fa = IdleFa
    /\ weasyl \in WeasylStarts
    /\ e621 = IdleE621
    /\ refresh = IdleRefresh
    /\ poll = IdlePoll

WeasylNext ==
    \/ WeasylRange \/ WeasylSleep \/ WeasylCheck \/ WeasylLoadSubmission
    \/ WeasylDownload \/ WeasylInsert \/ WeasylQueueWebhook \/ WeasylInsertNull
    \/ WeasylRestart

SpecWeasyl == WeasylInit /\ [][WeasylNext]_vars

\* The two ingesters with a main loop over ids, each on its own table.
IngestInit ==
    /\ OtherVarsInit
    /\ codec = IdleCodec
    /\ HiInit
    /\ \/ fa \in FaStarts /\ weasyl = IdleWeasyl
       \/ fa = IdleFa /\ weasyl \in WeasylStarts
    /\ e621 = IdleE621
    /\ refresh = IdleRefresh
    /\ poll = IdlePoll

IngestNext == FaNext \/ WeasylNext

SpecIngest == IngestInit /\ [][IngestNext]_vars

(***************************************************************************)
(* The e621 ingester: main and insert_submission                           *)
(***************************************************************************)

\* `?` on an Err in main: main returns, the open transaction is dropped and
\* rolled back, the process ends.
E621Exits == [e621 EXCEPT !.pc = "exited", !.tx = {}]

\* main: the page after min_id is loaded; a page with posts moves min_id
\* and opens the transaction, a page without posts is tried again later.
E621LoadPage ==
    /\ e621.pc = "load_page"
    /\ \/ \E upto \in SubmissionIds :
              /\ Page(e621.min_id, upto) # << >>
              /\ e621' = [e621 EXCEPT !.pc = "post", !.min_id = upto,
                                      !.posts = Page(e621.min_id, upto)]
       \/ e621' = E621Exits
    /\ UNCHANGED <<restVars, hookVars, notE621>>

\* insert_submission: a post with a file url of a supported image type has
\* its image loaded, one with another file goes to queue_webhook, one
\* without a url goes to the INSERT.
E621Post ==
    /\ e621.pc = "post"
    /\ e621.posts # << >>
    /\ \E next \in {"load_image", "queue_webhook", "insert"} :
           e621' = [e621 EXCEPT !.pc = next, !.image = NoImage]
    /\ UNCHANGED <<restVars, hookVars, notE621>>

\* load_image: the image is loaded and hashed (or found undecodable, which
\* gives hash_error); a failed request is an Err.
E621LoadImage ==
    /\ e621.pc = "load_image"
    /\ \/ \E image \in {Hashed, Undecodable} :
              e621' = [e621 EXCEPT !.pc = "queue_webhook", !.image = image]
       \/ e621' = E621Exits
    /\ UNCHANGED <<restVars, hookVars, notE621>>

\* insert_submission: queue_webhook, before the INSERT.
E621QueueWebhook ==
    /\ e621.pc = "queue_webhook"
    /\ \/ e621' = [e621 EXCEPT !.pc = "insert", !.queued = @ \cup {Head(e621.posts)}]
       \/ e621' = E621Exits
    /\ UNCHANGED <<restVars, hookVars, notE621>>

\* insert_submission: the INSERT ... ON CONFLICT DO UPDATE, in the
\* transaction of the page.
E621Insert ==
    /\ e621.pc = "insert"
    /\ \/ e621' = [e621 EXCEPT !.pc = "post", !.tx = @ \cup {Head(e621.posts)},
                               !.written[Head(e621.posts)] = e621.image,
                               !.posts = Tail(@)]
       \/ e621' = E621Exits
    /\ UNCHANGED <<restVars, hookVars, notE621>>

\* main: the posts of the page are done and the transaction is committed.
E621Commit ==
    /\ e621.pc = "post"
    /\ e621.posts = << >>
    /\ \/ e621' = [e621 EXCEPT !.pc = "load_page", !.tx = {},
                               !.rows = [id \in SubmissionIds |->
                                            IF id \in e621.tx THEN "full" ELSE @[id]],
                               !.cols = [id \in SubmissionIds |->
                                            IF id \in e621.tx THEN e621.written[id]
                                            ELSE @[id]]]
       \/ e621' = E621Exits
    /\ UNCHANGED <<restVars, hookVars, notE621>>

\* Another instance of the ingester, which has loaded the same page,
\* commits the row of one of its posts with the hash of its image.
E621OtherCommits ==
    /\ e621.pc \in {"post", "load_image", "queue_webhook", "insert"}
    /\ e621.others < MaxOtherWrites
    /\ \E i \in 1..Len(e621.posts) :
           LET id == e621.posts[i] IN
               /\ e621.rows[id] = "none"
               /\ id \notin e621.tx
               /\ e621' = [e621 EXCEPT !.rows[id] = "full", !.cols[id] = Hashed,
                                       !.others = @ + 1]
    /\ UNCHANGED <<restVars, hookVars, notE621>>

E621Init ==
    /\ OtherVarsInit
    /\ codec = IdleCodec
    /\ HiInit
    /\ fa = IdleFa
    /\ weasyl = IdleWeasyl
    /\ e621 \in E621Starts
    /\ refresh = IdleRefresh
    /\ poll = IdlePoll

E621Next ==
    \/ E621LoadPage \/ E621Post \/ E621LoadImage \/ E621QueueWebhook
    \/ E621Insert \/ E621Commit \/ E621OtherCommits

SpecE621 == E621Init /\ [][E621Next]_vars

(***************************************************************************)
(* The refresh worker: furaffinity_load and update_furaffinity_submission  *)
(***************************************************************************)

\* furaffinity_load: the id is read from the job, updated_at of its row is
\* queried, and the handler returns Ok without loading when the test on
\* last_updated says so; a job without a usable id or a failed query is an Err.
FuraffinityLoad ==
    /\ refresh.pc = "job"
    /\ LET last_updated == refresh.stored.updated_at IN
           \/ refresh' = [refresh EXCEPT
                  !.last_updated = last_updated, !.at = refresh.time,
                  !.pc = IF last_updated.some /\ SkipsLoad(last_updated.value, refresh.time)
                         THEN "skipped" ELSE "get_submission"]
           \/ refresh' = [refresh EXCEPT !.pc = "failed"]
    /\ UNCHANGED <<restVars, hookVars, notRefresh>>

\* furaffinity_load: get_submission answers a submission, none, or an error.
RefreshGetSubmission ==
    /\ refresh.pc = "get_submission"
    /\ \/ \E sub \in BOOLEAN : refresh' = [refresh EXCEPT !.pc = "update", !.sub = sub]
       \/ refresh' = [refresh EXCEPT !.pc = "failed"]
    /\ UNCHANGED <<restVars, hookVars, notRefresh>>

\* update_furaffinity_submission: a submission that does not exist marks
\* the row deleted (a new row gets updated_at, an old one keeps its own);
\* one that exists is hashed and written with updated_at = now.
UpdateFuraffinitySubmission ==
    /\ refresh.pc = "update"
    /\ \/ refresh' = [refresh EXCEPT !.pc = "done",
                          !.stored = IF refresh.sub
                                     THEN SubmissionRow(Some(refresh.time), @.deleted)
                                     ELSE IF @.row THEN SubmissionRow(@.updated_at, TRUE)
                                          ELSE SubmissionRow(Some(refresh.time), TRUE)]
       \/ refresh' = [refresh EXCEPT !.pc = "failed"]
    /\ UNCHANGED <<restVars, hookVars, notRefresh>>

\* Another furaffinity_load job for the id is fetched.
RefreshFetch ==
    /\ refresh.pc \in {"skipped", "done", "failed"}
    /\ refresh.loads < MaxLoads
    /\ refresh' = [refresh EXCEPT !.pc = "job", !.loads = @ + 1]
    /\ UNCHANGED <<restVars, hookVars, notRefresh>>

\* A day passes.
RefreshTick ==
    /\ refresh.pc # "off"
    /\ refresh.time < Now0 + MaxTicks * UnitsPerDay
    /\ refresh' = [refresh EXCEPT !.time = @ + UnitsPerDay]
    /\ UNCHANGED <<restVars, hookVars, notRefresh>>

RefreshInit ==
    /\ OtherVarsInit
    /\ codec = IdleCodec
    /\ HiInit
    /\ fa = IdleFa
    /\ weasyl = IdleWeasyl
    /\ e621 = IdleE621
    /\ refresh \in RefreshStarts
    /\ poll = IdlePoll

RefreshNext ==
    \/ FuraffinityLoad \/ RefreshGetSubmission \/ UpdateFuraffinitySubmission
    \/ RefreshFetch \/ RefreshTick

SpecRefresh == RefreshInit /\ [][RefreshNext]_vars

(***************************************************************************)
(* The refresh worker: poll_fa_online                                      *)
(***************************************************************************)

\* poll_fa_online: the queue is resumed before the first poll; a failure
\* there ends the task.
PollResume ==
    /\ poll.pc = "init"
    /\ \/ poll' = [poll EXCEPT !.pc = "wait", !.running = TRUE]
       \/ poll' = [poll EXCEPT !.pc = "panicked"]
    /\ UNCHANGED <<restVars, hookVars, notPoll>>

\* poll_fa_online, every five minutes: latest_id gives continue_queue, and
\* nothing more is done when queue_state already has that value.
PollLatestId ==
    /\ poll.pc = "wait"
    /\ poll.polls < MaxPolls
    /\ \E registered \in Measures(poll.max_online) \cup {Unmeasured} :
           LET continue_queue == ContinueQueue(registered, poll.max_online) IN
               poll' = [poll EXCEPT
                   !.registered = registered, !.continue_queue = continue_queue,
                   !.polls = @ + 1,
                   !.result = IF poll.queue_state = continue_queue THEN "same" ELSE "none",
                   !.pc = IF poll.queue_state = continue_queue THEN "wait" ELSE "command"]
    /\ UNCHANGED <<restVars, hookVars, notPoll>>

\* The command of poll_fa_online with queue_state stored whatever the
\* outcome of the command.
PollCommandStored ==
    /\ poll.pc = "command"
    /\ \/ poll' = [poll EXCEPT !.pc = "wait", !.result = "ok",
                               !.running = poll.continue_queue,
                               !.queue_state = poll.continue_queue]
       \/ poll' = [poll EXCEPT !.pc = "wait", !.result = "failed",
                               !.queue_state = poll.continue_queue]
    /\ UNCHANGED <<restVars, hookVars, notPoll>>

\* poll_fa_online: queue_resume or queue_pause in a blocking task;
\* queue_state is stored when the task and the command have succeeded.
PollCommand ==
    /\ poll.pc = "command"
    /\ \/ poll' = [poll EXCEPT !.pc = "wait", !.result = "ok",
                               !.running = poll.continue_queue,
                               !.queue_state = poll.continue_queue]
       \/ poll' = [poll EXCEPT !.pc = "wait", !.result = "failed"]
    /\ UNCHANGED <<restVars, hookVars, notPoll>>

PollInit ==
    /\ OtherVarsInit
    /\ codec = IdleCodec
    /\ HiInit
    /\ fa = IdleFa
    /\ weasyl = IdleWeasyl
    /\ e621 = IdleE621
    /\ refresh = IdleRefresh
    /\ poll \in PollStarts

PollNext == PollResume \/ PollLatestId \/ PollCommand

SpecPoll == PollInit /\ [][PollNext]_vars

(***************************************************************************)
(* Claims                                                                  *)
(***************************************************************************)

\* popcount(h XOR g) on the two's-complement bit patterns of the two numbers.
PopXor(h, g) ==
    Cardinality({k \in 0..(HashBits - 1) :
        ((h % Pow2(HashBits)) \div Pow2(k)) % 2 # ((g % Pow2(HashBits)) \div Pow2(k)) % 2})

\* C1: for every set of inserted hashes, query hash h and radius d in
\* 0..HashBits, the search returns exactly the inserted hashes within Hamming
\* distance d of h, each once and each with its distance.
C1_FindExactlyWithinRadius ==
    (fq.done /\ fq.distance \in 0..HashBits) =>
        /\ {<<NodeNum(fq.items[k].item), fq.items[k].dist>> : k \in 1..Len(fq.items)}
             = {<<g, PopXor(fq.hash, g)>> : g \in {x \in inserted : PopXor(fq.hash, x) <= fq.distance}}
        /\ Cardinality({fq.items[k].item : k \in 1..Len(fq.items)}) = Len(fq.items)

\* C1 witness: a search from a negative hash that returns a hash at exactly
\* the radius and leaves out an inserted hash one bit further away.
C1_Witness ==
    /\ fq.done /\ fq.hash = -1 /\ fq.distance = 5
    /\ \E k \in 1..Len(fq.items) : fq.items[k].dist = 5 /\ NodeNum(fq.items[k].item) = 2047
    /\ 1023 \in inserted
    /\ \A k \in 1..Len(fq.items) : NodeNum(fq.items[k].item) # 1023

\* C5: a build never shows through.  While create_tree runs, the shared tree
\* is the tree from before the build; the tree a lookup searched is the shared
\* tree for as long as the lookup holds the read lock; and the tree that a
\* swap installed holds every hash of the rows the build's query covered.
C5_NoPartialTree ==
    /\ mpc = "scan" => tree = hist.prev_tree
    /\ lk.pc = "rows" => lk.view = tree
    /\ (hist.last = "swapped" /\ mpc # "scan") => BKKeys(tree) = hist.snapshot

\* C5 witness: a lookup holds the read lock on a non-empty tree while a
\* rebuild has fetched some rows and not yet all.
C5_Witness ==
    /\ serving /\ mpc = "scan" /\ cursor # {} /\ new_tree # BKNew
    /\ lk.pc = "rows" /\ lk.view # BKNew /\ lk.view # new_tree

\* C6: after the connection is lost the maintainer sleeps 10 s before it
\* builds again, and once it is listening again every hash committed while
\* it was not listening is in the tree.
C6_GapHashesPresent ==
    /\ (serving /\ mpc = "scan_start") => hist.slept = SleepSecs
    /\ (serving /\ mpc = "recv" /\ conn = "up") => hist.gap \subseteq BKKeys(tree)

C8_ResultsCommittedAndIndexed ==
    \A r \in lk.results :
        /\ r.id \in HashedIds(db)
        /\ db[r.id].hash = r.hash
        /\ r.hash \in BKKeys(tree)
        /\ lk.pc = "rows" => r.hash \in BKKeys(lk.view)
        /\ r.searched_hash \in SeqToSet(lk.asked)
        /\ r.distance = PopXor(r.searched_hash, r.hash)
        /\ r.distance <= lk.distance

\* C8 witness: a finished lookup returned a row at a distance above 0 and
\* left out a committed, indexed row that is too far away.
C8_Witness ==
    /\ lk.pc = "done"
    /\ \E r \in lk.results : r.distance > 0
    /\ \E id \in HashedIds(db) :
        /\ db[id].hash \in BKKeys(tree)
        /\ \A r \in lk.results : r.id # id

\* C9: the shared tree and the tree under construction hold no hash twice.
C9_NoDuplicateHashes ==
    /\ Cardinality(BKKeys(tree)) = Len(tree)
    /\ Cardinality(BKKeys(new_tree)) = Len(new_tree)

\* C9 witness: two rows share a hash, the notification of one of them was
\* skipped because the hash was present, and the tree holds the hash.
C9_Witness ==
    /\ hist.last = "skipped"
    /\ \E i, j \in HashedIds(db) : i # j /\ db[i].hash = db[j].hash /\ db[i].hash \in BKKeys(tree)

\* The charge a request has last made, and the limit it was held against.
LastLimit(q) == KeyLimit(q.charge.row[1], q.charge.row[3])

LastRemaining(q) ==
    IF q.charge.row[3] = "image" THEN q.image_remaining ELSE q.hash_remaining

C3_AtMostLimitAdmitted ==
    /\ \A row \in DOMAIN ahist.admitted :
           ahist.admitted[row] <= KeyLimit(row[1], row[3])
    /\ \A r \in Slots :
           LET q == req[r]
               c == q.charge
           IN  c.outcome \notin {"none", "outage"} =>
                   /\ c.outcome \in {"available", "limited"}
                   /\ c.outcome = "limited" => q.status = 429 /\ q.bucket = c.row[3]
                   /\ (c.prev = 0 /\ LastLimit(q) >= 1) => c.outcome = "available"

\* C4: the count of a row never decreases, and it is the sum of all the
\* increments made on the row: a request rejected as RateLimited and a
\* request that fails after it was charged leave their increments in the
\* counter, which may exceed the limit.
C4_CountNeverRefunded ==
    /\ [](\A row \in DOMAIN rate_limit : rate_limit[row] = ahist.sum[row])
    /\ [][\A row \in DOMAIN rate_limit :
             row \in DOMAIN rate_limit' /\ rate_limit'[row] >= rate_limit[row]]_vars

\* A request that failed after it was charged, on a row whose count has
\* since passed the limit.
C4_Witness ==
    \E r \in Slots :
        /\ req[r].pc = "done"
        /\ req[r].status \in {400, 500}
        /\ req[r].charge.outcome = "available"
        /\ \E row \in req[r].charged : rate_limit[row] > KeyLimit(row[1], row[3])

\* The matches of an answer are the results of a lookup, in some order.
SameResults(matches, results) ==
    /\ Len(matches) = Len(results)
    /\ SeqToSet(matches) = SeqToSet(results)

\* The lookups an /image answer is made of: exact answers with the lookup
\* at distance 0, force with the lookup at distance 10, close with the
\* lookup at distance 0 when that is not empty and otherwise with the
\* lookup at distance 10.
ImageAnswerByMode(q) ==
    LET ls == q.lookups
        st == SearchTypeOf(q.search_type)
    IN  /\ ls # << >>
        /\ st = "exact" =>
               /\ Len(ls) = 1 /\ ls[1].distance = 0
               /\ SameResults(q.matches, ls[1].results)
        /\ st = "force" =>
               /\ Len(ls) = 1 /\ ls[1].distance = 10
               /\ SameResults(q.matches, ls[1].results)
        /\ st = "close" =>
               /\ ls[1].distance = 0
               /\ IF ls[1].results # << >>
                  THEN Len(ls) = 1 /\ SameResults(q.matches, ls[1].results)
                  ELSE /\ Len(ls) = 2 /\ ls[2].distance = 10
                       /\ SameResults(q.matches, ls[2].results)
        /\ st = "exact" =>
               \A k \in 1..Len(q.matches) : q.matches[k].distance = 0

Answered(q) == q.pc = "done" /\ q.ep = "image" /\ q.status = 200

\* C10 as stated: the answer by mode, exact never yields a match with
\* distance > 0, and close yields matches with distance > 0 only when
\* there is no match with distance 0.
C10_CloseFarOnlyWithoutExact ==
    \A r \in Slots :
        LET q == req[r]
        IN  Answered(q) =>
                /\ ImageAnswerByMode(q)
                /\ SearchTypeOf(q.search_type) = "close" =>
                       ((\E k \in 1..Len(q.matches) : q.matches[k].distance > 0)
                            => ~(\E k \in 1..Len(q.matches) : q.matches[k].distance = 0))

\* C10: the answer by mode, exact never yields a match with distance > 0,
\* and close yields matches with distance > 0 only when the lookup at
\* distance 0 it made first returned nothing.
C10_ImageSearchModes ==
    \A r \in Slots :
        LET q == req[r]
        IN  Answered(q) =>
                /\ ImageAnswerByMode(q)
                /\ SearchTypeOf(q.search_type) = "close" =>
                       ((\E k \in 1..Len(q.matches) : q.matches[k].distance > 0)
                            => q.lookups[1].results = << >>)

\* A default (close) search answered from the expanded lookup with a match
\* at a distance above 0.
C10_Witness ==
    \E r \in Slots :
        /\ Answered(req[r])
        /\ req[r].search_type = "none"
        /\ Len(req[r].lookups) = 2
        /\ \E k \in 1..Len(req[r].matches) : req[r].matches[k].distance > 0

\* The requests to the two /hashes handlers.
IsHashes(q) == q.ep \in {"hashes", "api_hashes"}

\* The request was let in by api_checker and no store failure met its charge.
Served(q) == q.pc \notin {"idle", "auth"} /\ q.key # 0 /\ q.charge.outcome # "outage"

InWork(q, step) == \E k \in 1..Len(q.work) : q.work[k] = step

\* C11: a /hashes request with a distance above 10 that comes to the lookup
\* is answered with the BadRequest "distance too large" as a 400, never as
\* a 500, and no index search is made for it.
C11_DistanceTooLargeIs400 ==
    \A r \in Slots :
        LET q == req[r]
        IN  (/\ IsHashes(q) /\ Served(q) /\ q.pc = "done"
             /\ q.distance > 10
             /\ q.hashes # << >>
             /\ q.charge.outcome = "available") =>
                /\ q.status = 400
                /\ q.error = "distance too large"
                /\ ~InWork(q, "search")

RECURSIVE NumbersOf(_)
\* The values of the tokens that are numbers.
NumbersOf(tokens) ==
    IF tokens = << >> THEN << >>
    ELSE (IF Head(tokens).number THEN << Head(tokens).value >> ELSE << >>)
         \o NumbersOf(Tail(tokens))

\* The numbers among the first ten tokens.
ExpectedHashes(tokens) ==
    NumbersOf(SubSeq(tokens, 1, IF Len(tokens) < 10 THEN Len(tokens) ELSE 10))

\* C12: a /hashes request whose parameter has no number among its first
\* ten tokens is answered with the BadRequest "hashes must be provided"
\* whatever the counters of the key hold.
C12_NoHashesIsBadRequest ==
    \A r \in Slots :
        LET q == req[r]
        IN  (/\ IsHashes(q) /\ Served(q) /\ q.pc = "done"
             /\ ExpectedHashes(q.param.tokens) = << >>) =>
                /\ q.status = 400
                /\ q.error = "hashes must be provided"

C16_SearchedHashesParsed ==
    \A r \in Slots :
        LET q == req[r]
        IN  (IsHashes(q) /\ Served(q)) =>
                /\ q.hashes = ExpectedHashes(q.param.tokens)
                /\ q.charge.outcome \in {"available", "limited"} =>
                       /\ q.charge.incr_by = Len(q.hashes)
                       /\ q.charge.count = q.charge.prev + Len(q.hashes)
                       /\ q.charge.row[3] = "image"
                /\ InWork(q, "search") =>
                       /\ Len(q.hashes) >= 1 /\ Len(q.hashes) <= 10
                       /\ q.charge.outcome = "available"
                /\ q.pc = "query" =>
                       \A k \in 1..Len(q.index_hashes) :
                           \E i \in 1..Len(q.hashes) :
                               q.index_hashes[k].searched_hash = q.hashes[i]

\* An answered request of eleven tokens: ten hashes searched and charged,
\* with rows in the store.
C16_Witness ==
    \E r \in Slots :
        /\ IsHashes(req[r])
        /\ req[r].status = 200
        /\ Len(req[r].param.tokens) > 10
        /\ Len(req[r].hashes) = 10
        /\ req[r].charge.incr_by = 10

RECURSIVE SumSeq(_)
SumSeq(seq) == IF seq = << >> THEN 0 ELSE Head(seq) + SumSeq(Tail(seq))

\* The bytes of the body a fetch was answered with.
BodyBytes(b) == SumSeq(b.chunks)

\* C13: /url never buffers more than 10 000 000 bytes and the buffer holds
\* exactly the bytes read so far; a body of exactly 10 000 000 bytes whose
\* advertised length is not above the cap is read whole and given to
\* hash_input; a body of 10 000 001 bytes or more is never hashed and, unless
\* the read itself fails, is answered 400 "image too large", whatever its
\* Content-Length says; an advertised length above the cap is answered 400
\* with no chunk read.
C13_UrlBodyCap ==
    \A r \in Slots :
        LET q == req[r]
        IN  (q.ep = "url" /\ q.body \in Bodies) =>
                /\ q.buf <= MaxBodyBytes
                /\ q.buf = BodyBytes(q.body) - BodyBytes(q.resp)
                /\ q.body.content_length > MaxBodyBytes =>
                       /\ q.resp = q.body /\ q.buf = 0 /\ q.pc = "done"
                       /\ q.status = 400 /\ q.error = "image too large"
                /\ BodyBytes(q.body) > MaxBodyBytes =>
                       /\ ~InWork(q, "hash")
                       /\ (q.pc = "done" /\ q.error # "read failed") =>
                              q.status = 400 /\ q.error = "image too large"
                /\ ( /\ BodyBytes(q.body) = MaxBodyBytes
                     /\ q.body.content_length <= MaxBodyBytes
                     /\ q.pc \notin {"chunk", "hash_input"}
                     /\ q.error # "read failed" ) =>
                       /\ InWork(q, "hash") /\ q.buf = MaxBodyBytes
                       /\ q.error # "image too large"

\* One request has had its body of exactly 10 000 000 bytes, read in two
\* chunks, hashed while another was refused at 10 000 001 bytes behind an
\* understated Content-Length.
C13_Witness ==
    \E r, t \in Slots :
        /\ req[r].ep = "url" /\ req[r].body.content_length = MaxBodyBytes
        /\ BodyBytes(req[r].body) = MaxBodyBytes /\ Len(req[r].body.chunks) = 2
        /\ InWork(req[r], "hash") /\ req[r].buf = MaxBodyBytes
        /\ req[t].ep = "url" /\ req[t].body.content_length = 1
        /\ BodyBytes(req[t].body) = MaxBodyBytes + 1
        /\ req[t].pc = "done" /\ req[t].status = 400 /\ req[t].buf = MaxBodyBytes

ChargedOn(q, group) == \E row \in q.charged : row[3] = group

\* C15: in /image and /url every charge is of 1, the hash bucket is charged
\* only after the image bucket was charged and admitted, work (fetch, hash,
\* index search, store lookup) has started only when both charges were made
\* and admitted, and a request whose last charge was rejected or failed has
\* done no work.
C15_ChargedBeforeWork ==
    \A r \in Slots :
        LET q == req[r]
        IN  q.ep \in {"image", "url"} =>
                /\ q.charge.outcome \in {"available", "limited"} =>
                       q.charge.incr_by = 1 /\ q.charge.count = q.charge.prev + 1
                /\ (q.group = "hash" \/ ChargedOn(q, "hash")) =>
                       ChargedOn(q, "image") /\ q.image_remaining # << >>
                /\ q.work # << >> =>
                       /\ ChargedOn(q, "image") /\ ChargedOn(q, "hash")
                       /\ q.image_remaining # << >> /\ q.hash_remaining # << >>
                       /\ q.charge.outcome = "available"
                /\ (q.status = 429 \/ q.charge.outcome \in {"limited", "outage", "overflow"}) =>
                       q.work = << >>

\* A /url request was charged on both buckets and then did all its work.
C15_Witness ==
    \E r \in Slots :
        /\ req[r].ep = "url" /\ req[r].pc = "done" /\ req[r].status = 200
        /\ req[r].work = <<"fetch", "hash", "search", "query">>
        /\ Cardinality(req[r].charged) = 2
        /\ req[r].image_remaining # << >> /\ req[r].hash_remaining # << >>

IsSorted(matches) ==
    \A k \in 1..(Len(matches) - 1) : matches[k].distance <= matches[k + 1].distance

\* C17: the matches of every successful /image response are in order of
\* non-decreasing distance.
C17_ImageMatchesSorted ==
    \A r \in Slots : Answered(req[r]) => IsSorted(req[r].matches)

\* An /image answer with matches at two distances whose lookup gave them in
\* another order.
C17_Witness ==
    \E r \in Slots :
        LET q == req[r]
        IN  /\ Answered(q) /\ Len(q.matches) >= 2
            /\ q.matches[1].distance < q.matches[Len(q.matches)].distance
            /\ ~IsSorted(q.lookups[Len(q.lookups)].results)

\* C18: a successful /url response holds the matches of one lookup of the
\* computed hash at the given distance (3 when none is given), all within
\* that distance, in order of non-decreasing distance.
C18_UrlAsImageSorted ==
    \A r \in Slots :
        LET q == req[r]
        IN  (q.ep = "url" /\ q.pc = "done" /\ q.status = 200) =>
                /\ Len(q.lookups) = 1
                /\ q.lookups[1].distance = DistanceOf(q.given)
                /\ SameResults(q.matches, q.lookups[1].results)
                /\ \A k \in 1..Len(q.matches) :
                       q.matches[k].distance <= q.lookups[1].distance
                /\ IsSorted(q.matches)

\* The send_webhook jobs enqueued for a new_submission job, a payload and
\* an endpoint.
EnqueuedFor(id, data, endpoint) ==
    LET x == [id |-> id, data |-> data, endpoint |-> endpoint]
    IN  IF x \in DOMAIN whist.enqueued THEN whist.enqueued[x] ELSE 0

\* C19: when a new_submission job has completed, for every subscriber that
\* was in the webhook table at the query of the completing run and matches
\* the payload, at least one send_webhook job with the job's payload and
\* the subscriber's endpoint has been enqueued, whatever runs of the job
\* failed before.
C19_CompletedFansOut ==
    \A c \in whist.completed :
        \A sub \in c.subs :
            Matches(sub, c.data) => EnqueuedFor(c.id, c.data, sub.endpoint) >= 1

\* A job completed on a retry after a run that failed between two
\* enqueues: both subscribers match and have their job, one of them twice.
C19_Witness ==
    \E c \in whist.completed :
        /\ c.failures >= 1
        /\ c.subs = Subscribers
        /\ \A sub \in c.subs : Matches(sub, c.data)
        /\ \E sub \in c.subs : EnqueuedFor(c.id, c.data, sub.endpoint) >= 2
        /\ \E sub \in c.subs : EnqueuedFor(c.id, c.data, sub.endpoint) = 1

\* C20: a send_webhook job is enqueued for a subscriber with a filter only
\* when the payload matches the filter, and a subscriber without a filter
\* that is in the table when a new_submission job completes has a job for
\* its payload.
C20_FilterRespected ==
    /\ \A x \in DOMAIN whist.enqueued :
           \A sub \in Subscribers : sub.endpoint = x.endpoint => Matches(sub, x.data)
    /\ \A c \in whist.completed :
           \A sub \in c.subs :
               ~sub.filter.some => EnqueuedFor(c.id, c.data, sub.endpoint) >= 1

\* C21: a send_webhook job has succeeded only on a 2xx status, it is never
\* in a fourth attempt, and its attempts are reserved for 30 s.
C21_SendAtMostThreeAttempts ==
    /\ \A status \in whist.succeeded : status >= 200 /\ status <= 299
    /\ \A w \in Workers :
           consumer[w].pc = "send_webhook" =>
               /\ consumer[w].job.failures < NewSubmissionRetry
               /\ ReserveForOf(consumer[w].job) = NewSubmissionReserveFor

\* C22: the JSON of every payload is decoded by the send_webhook handler,
\* and the JSON the handler posts is the JSON it was given.
C22_PayloadRoundTrip ==
    /\ codec.pc # "err"
    /\ codec.pc = "posted" => codec.posted = codec.json

\* C23: at most 4 decode-and-hash computations are running at any time.
C23_AtMostFourHashing == Hashing <= Permits

\* C24: a notification whose payload is malformed never ends the task of
\* the index maintainer: the loop goes on to the notifications after it.
C24_MalformedSkipped == mpc # "panicked"

\* C28: when get_submission has failed with retriable errors until the
\* FurAffinity worker gives up, it has waited 1 s, 2 s and 3 s before its
\* three retries; an error that does not ask for retry ends the attempts
\* at once; the id is tombstoned in both cases.
C28_ThreeRetriesThenTombstone ==
    fa.pc = "insert_null" =>
        /\ fa.why = "retry" => fa.waits = <<1, 2, 3>>
        /\ fa.why = "no_retry" => fa.attempt = FirstAttempt + Len(fa.waits)

\* C29: the list of a FurAffinity cycle is the ids of 1..latest_id without
\* a row, in ascending order, whatever rows the table has.
C29_CandidatesFromOne ==
    [][fa.pc = "latest_id" /\ fa'.pc = "loop" =>
           fa'.todo = Ascending({id \in 1..fa'.latest : fa.rows[id] = "none"})]_vars

C26_FailureNeverEndsLoop ==
    ~(/\ weasyl.pc = "panicked"
      /\ weasyl.at \in {"load_submission", "download", "insert", "insert_null"})

\* C27: every submission for which an ingester has queued a new_submission
\* job has its row committed in the table.
C27_QueuedAfterCommit ==
    /\ \A id \in e621.queued : e621.rows[id] # "none"
    /\ \A id \in weasyl.queued : weasyl.rows[id] # "none"

\* C30: a furaffinity_load job returns without loading from upstream
\* exactly when the row of its id has an updated_at less than 30 days
\* before now; an older row, a row without updated_at and an id without a
\* row are loaded.
C30_SkipsOnlyRecent ==
    LET recent == /\ refresh.last_updated.some
                  /\ refresh.last_updated.value <= refresh.at
                  /\ NumDays(refresh.at - refresh.last_updated.value) < RefreshDays
    IN  /\ refresh.pc = "skipped" => recent
        /\ refresh.pc = "get_submission" => ~recent

\* C31: after a poll whose result has been applied, the FurAffinity queue
\* is paused exactly when the registered users measured exceed the
\* threshold; at the threshold itself the queue runs.
C31_PausedIffAboveThreshold ==
    poll.pc = "wait" /\ poll.result \in {"ok", "same"} /\ poll.registered # Unmeasured =>
        (~poll.running <=> poll.registered > poll.max_online)

\* C39: queue_state changes only in the step in which the pause or resume
\* command has succeeded on the queue; after a failed command queue_state
\* still differs from the state wanted, so that the next poll that wants
\* the same issues the command again; and a latest_id that failed asks for
\* the pause.
C39_StateFollowsCommand ==
    [][/\ poll'.queue_state # poll.queue_state =>
              /\ poll.pc = "command"
              /\ poll'.result = "ok"
              /\ poll'.running = poll'.queue_state
       /\ poll.pc = "command" /\ poll'.result = "failed" =>
              /\ poll'.queue_state # poll'.continue_queue
              /\ poll'.pc = "wait"
       /\ poll.pc = "wait" /\ poll.result = "failed" /\ poll'.polls > poll.polls
             /\ poll'.continue_queue = poll.continue_queue =>
              poll'.pc = "command"
       /\ poll'.polls > poll.polls /\ poll'.registered = Unmeasured =>
              /\ ~poll'.continue_queue
              /\ poll.queue_state => poll'.pc = "command"]_vars

\* A pause has failed, the next poll cannot measure and issues the pause
\* again, and that one succeeds.
C39_Witness ==
    /\ poll.pc = "wait"
    /\ poll.result = "ok"
    /\ poll.registered = Unmeasured
    /\ ~poll.queue_state
    /\ ~poll.running
    /\ poll.polls = 2

\* C32: no step of the e621 ingester takes the hash from a row that has
\* one, also when the post it stores again is deleted or has no image.
C32_HashKept ==
    [][\A id \in SubmissionIds : e621.cols[id].hash => e621'.cols[id].hash]_vars

\* C33: in every row an ingester has written the hash is set exactly when
\* the image was loaded and decoded, a row whose hashing failed has
\* hash_error set and no hash, and no row has both.
C33_HashXorHashError ==
    \A id \in SubmissionIds :
        \A c \in {fa.cols[id], e621.cols[id]} :
            /\ c.hash <=> c.image = "decoded"
            /\ c.image = "failed" => c.hash_error /\ ~c.hash
            /\ ~(c.hash /\ c.hash_error)

\* C34: the index search for one searched hash runs under one acquisition of
\* the read lock.  For as long as the lookup is between taking the lock and
\* dropping it, the lock is held, the tree is the tree the search started on,
\* and the items still to be looked up are the rest of what a search of the
\* tree as it is now gives for the searched hash: no add and no swap has
\* taken effect in between.
C34_SearchUnderOneLock ==
    lk.pc = "rows" =>
        /\ readers > 0
        /\ tree = lk.view
        /\ LET q == QueryItems(tree, lk.query_hash, lk.distance)
           IN  \E k \in 0..Len(q) : lk.items = SubSeq(q, k + 1, Len(q))

\* C34 witness: a lookup holds the read lock with items of its search still
\* to be looked up while the maintainer waits for the write lock to add a
\* hash that this search would find, and while a build has all its rows and
\* waits to swap its tree in.
C34_Witness ==
    /\ lk.pc = "rows" /\ lk.items # << >> /\ readers > 0
    /\ \/ /\ mpc = "add"
          /\ PopXor(payload.hash, lk.query_hash) <= lk.distance
       \/ /\ mpc = "scan" /\ cursor = {} /\ new_tree # tree

\* C35 as stated: the window value under which a request made at unix time t
\* is counted equals floor(t / 60), the number of whole minutes since the
\* epoch.
C35_WindowIsMinuteNumber ==
    [][\A r \in Slots :
          (req[r].pc = "window" /\ req'[r].pc = "upsert") =>
              req'[r].time_window = now \div WindowSecs]_vars

\* C35, amended: the window value under which a request made at unix time t
\* is counted equals t - (t mod 60) = 60 * floor(t / 60), the unix time in
\* seconds at which the minute of t began; it is a multiple of 60, at most t
\* and more than t - 60.
C35_WindowIsMinuteStart ==
    [][\A r \in Slots :
          (req[r].pc = "window" /\ req'[r].pc = "upsert") =>
              /\ req'[r].time_window = WindowSecs * (now \div WindowSecs)
              /\ req'[r].time_window % WindowSecs = 0
              /\ req'[r].time_window <= now
              /\ now < req'[r].time_window + WindowSecs]_vars

\* C35 witness: a request made at t = 60 is about to be counted under the
\* window 60, and a request made at t = 59 was counted under the window 0.
C35_Witness ==
    /\ now = Times[2]
    /\ \E r \in Slots : req[r].pc = "upsert" /\ req[r].time_window = WindowSecs
    /\ \E row \in DOMAIN rate_limit : row[2] = 0

\* The hashes of the rows of the store.
Committed == {db[id].hash : id \in HashedIds(db)}

\* C36: at startup the maintainer listens before it starts the scan, the
\* server starts only with the swap of the built tree, and every hash that is
\* committed while the server has not started yet (so also at any moment of
\* the initial build) is in the index later on: none is lost.
C36_StartupLosesNoHash ==
    /\ [](~serving /\ mpc \in {"scan_start", "scan"} => conn # "none")
    /\ [][~serving /\ serving' =>
             mpc = "scan" /\ cursor = {} /\ tree' = new_tree]_vars
    /\ \A h \in IngestHashes :
          (~serving /\ mpc # "init" /\ h \in Committed) ~> (h \in BKKeys(tree))

\* C36 witness: the server has started, and a hash that was committed after
\* the query of the initial build had started, and so is not among the rows
\* of that build, is in the tree.
C36_Witness ==
    /\ serving /\ hist.last = "added" /\ mpc = "recv"
    /\ conn = "up" /\ hist.slept = 0
    /\ \E h \in Committed : h \notin hist.snapshot /\ h \in BKKeys(tree)

\* C37: once the count of a row exceeds the key's limit, every later charge
\* on that row is rejected as RateLimited (429), however many charges
\* follow: the 16-bit count neither admits a later request nor turns its
\* answer into a server error.  (A charge that never reached the store is
\* left aside.)
C37_LimitedStaysLimited ==
    \A r \in Slots :
        LET q == req[r]
            c == q.charge
        IN  (c.outcome \notin {"none", "outage"} /\ c.prev > KeyLimit(c.row[1], c.row[3])) =>
                /\ c.outcome = "limited"
                /\ q.status = 429

\* C38: the Weasyl worker takes the ids in increasing order from the highest
\* stored id + 1 on and writes the row of an id before it takes the next.  At
\* every moment, also after a panic and a restart at any point, every id
\* above the highest id stored when the worker was first started and up to
\* the highest stored id has a row, and inside a cycle every id of the range
\* below the current one has a row.
C38_GapFreeAboveStart ==
    /\ \A id \in SubmissionIds :
           (weasyl.start < id /\ id <= MaxStored(weasyl.rows)) => weasyl.rows[id] # "none"
    /\ weasyl.pc \notin {"off", "range", "panicked"} =>
           /\ weasyl.start <= weasyl.min
           /\ weasyl.min < weasyl.id
           /\ \A id \in SubmissionIds :
                  (weasyl.min < id /\ id < weasyl.id) => weasyl.rows[id] # "none"
           /\ \A id \in SubmissionIds : weasyl.id < id => weasyl.rows[id] = "none"

\* C38 witness: the worker was started on a table with a gap below its
\* highest id, panicked, was started again and is past the second id of its
\* new range, with the rows of both written.
C38_Witness ==
    /\ weasyl.restarts > 0 /\ weasyl.pc = "loop"
    /\ weasyl.start = 1 /\ weasyl.id = MaxSubmissionId + 1
    /\ weasyl.rows[2] = "null" /\ weasyl.rows[3] = "full"

=============================================================================
